---- MODULE Spec2Model ----
(***************************************************************************)
(* Batched embedding engine of pdf-brain.                                  *)
(*                                                                         *)
(* processInBatches (EmbeddingQueue) is a generator that slices its input  *)
(* into batches, runs every batch through                                  *)
(*   Stream.fromIterable(batch) |> Stream.mapEffect(process, {concurrency})*)
(*   |> Stream.runCollect                                                  *)
(* and then, per batch, reports progress, runs the afterBatch hook and     *)
(* sleeps.  Ollama.embedBatch is the same stream over all texts.           *)
(*                                                                         *)
(* The generator is split at its yield points: everything between two      *)
(* yields is synchronous JavaScript and is one action.                     *)
(***************************************************************************)
EXTENDS Integers, Sequences, FiniteSets, TLC

\* ------------------------------------------------------------------ bounds
MaxItems == 6
MaxBatchSize == 3
MaxConcurrency == 3
MaxDelayMs == 1
MaxProcs == 2
MaxDaemonCalls == 3

\* The operating-system processes (and their pids) that call the daemon API
Procs == 1..MaxProcs

\* ------------------------------------------------------------------ state
VARIABLES
  api,          \* which entry point runs: "processInBatches" or "embedBatch"
  items,        \* the input sequence (items / texts)
  config,       \* EmbeddingQueueConfig of the run
  afterBatch,   \* TRUE iff the optional afterBatch hook was supplied
  onProgress,   \* TRUE iff the optional onProgress callback was supplied
  ebConcurrency,\* concurrency argument of Ollama.embedBatch (0 when unused)
  pc,           \* position of the generator
  batchIdx,     \* loop variable of the for loop (0-based)
  pulled,       \* elements the stream has pulled from the current batch
  running,      \* indices (into items) of the process calls in flight
  started,      \* indices of all items process was ever called on
  collected,    \* [index, value] of the completed calls of the current
                \* stream, in completion order
  batchLog,     \* [start, end] of every slice taken so far, in order
  results,      \* the results array
  progressLog,  \* the BatchProgress records handed to onProgress, in order
  hookLog,      \* batch numbers (1-based) for which afterBatch() was invoked
  sleeps,       \* number of Effect.sleep pauses started
  error,        \* the failure of the run, NoError while there is none
  returned,     \* the value the effect succeeded with, NoReturn before
  \* getAdaptiveBatchSize
  adBase,       \* the baseBatchSize argument
  adMem,        \* process.memoryUsage: [available, heapUsed, heapTotal]
  adResult,     \* the value returned, NotCalled before the call
  \* createEmbeddingProcessor
  cpOverride,   \* the config argument (the keys the caller gave)
  cpFull,       \* fullConfig of the processor
  cpPc,         \* "idle" or "run": a run of embedBatch is under way
  cpAdaptive,   \* adaptiveConfig of the latest run, NoRun before
  cpTexts,      \* texts.length of the latest run
  cpBatchIdx,   \* batchIdx of the latest run
  cpSlices,     \* [start, end] of every batch sliced in the latest run
  cpRuns,       \* number of calls of embedBatch
  cpGot,        \* what the latest getConfig() returned, NotCalled before
  \* Ollama.embed (embedSingle)
  emPc,         \* position of the call: "call", "wait", "done", "failed"
  emAttempts,   \* number of requests sent to the embedding service
  emErrors,     \* the OllamaError of every failed attempt, in order
  emWaits,      \* the delays (ms) of the retry schedule slept so far
  emResult,     \* the vector embed succeeded with, NoReturn before
  emError,      \* the OllamaError embed failed with, NoError before
  \* scripts/migration/add-concept-embeddings.ts (main)
  mgPc,         \* position of main
  mgConcepts,   \* number of rows of the concepts table (ids 1..mgConcepts)
  mgStore,      \* concept_embeddings: per concept id the stored text, NoRow
                \* while the concept has no row
  mgTotal,      \* total
  mgProcessed,  \* processed
  mgErrors,     \* errors
  mgRows,       \* batch.rows still to be visited by the for loop
  mgEmbedding,  \* the array getEmbedding returned for the current row
  \* Ollama.checkHealth
  hcPc,         \* position of the generator
  hcRegistry,   \* the names of the models the service has (data.models)
  hcAutoInstall,\* config.ollama.autoInstall
  hcTags,       \* how the request to /api/tags ended, "pending" before
  hcPulls,      \* the models `ollama pull` was spawned for, in order
  hcError,      \* the OllamaError checkHealth failed with, NoError before
  \* autoAcceptProposals and the taxonomy store
  ddPc,         \* position of the generator
  ddProposals,  \* the proposals argument
  ddIdx,        \* 1-based index of the proposal the for loop is at
  ddEmbedding,  \* embedding of the current proposal, NoReturn before
  ddCandidate,  \* id of similar[0], "none" when similar is empty
  ddConcepts,   \* ids of the concept records of the taxonomy store
  ddEmbeddings, \* the stored concept embeddings, [id, point] records
  ddAccepted,   \* accepted
  ddRejected,   \* rejected
  ddBefore,     \* store and counters when the current proposal was taken
  ddJudged,     \* the llmJudgeDuplicate calls made, in order
  ddCalls,      \* the addConcept / storeConceptEmbedding calls made
  ddDecisions,  \* one record per proposal whose processing ended
  ddError,      \* the EnrichmentError of the run, NoError before
  ddReturned,   \* the counts the run succeeded with, NoReturn before
  \* the PGlite daemon (startDaemon, stopDaemon, ensureDaemonRunning)
  dmSocket,     \* TRUE iff the socket file .s.PGSQL.5432 exists
  dmPidFile,    \* the PID file: [exists, text]
  dmPc,         \* per process: position of its call
  dmCall,       \* per process: the exported function it called
  dmIn,         \* per process: the function isDaemonRunning returns to
  dmRead,       \* per process: the pid isDaemonRunning parsed
  dmDb,         \* per process: TRUE iff it holds an open PGlite instance
  dmServer,     \* per process: TRUE iff its socket server is started
  dmActive,     \* per process: TRUE iff activeDaemon is not null
  dmOutcome,    \* per process: how its last call ended
  dmShutdown,   \* per process: how the CHECKPOINT of its latest shutdown
                \* went, "none" when it has opened an instance since or
                \* has shut no daemon of its own down
  dmCalls,      \* number of calls made so far by all processes
  \* AutoTaggerLive.enrich, steps 2 and 3
  enPc,         \* position of enrich: "llm", "autoAccept", "done"
  enRaw,        \* proposedConcepts of the LLM's output: [defined, list]
  enCounts      \* { accepted, rejected } of step 3, NoReturn before

batchVars == <<api, items, config, afterBatch, onProgress, ebConcurrency,
               pc, batchIdx, pulled, running, started, collected, batchLog,
               results, progressLog, hookLog, sleeps, error, returned>>

adaptVars == <<adBase, adMem, adResult, cpOverride, cpFull, cpPc,
               cpAdaptive, cpTexts, cpBatchIdx, cpSlices, cpRuns, cpGot>>

embedVars == <<emPc, emAttempts, emErrors, emWaits, emResult, emError>>

migrationVars == <<mgPc, mgConcepts, mgStore, mgTotal, mgProcessed,
                   mgErrors, mgRows, mgEmbedding>>

healthVars == <<hcPc, hcRegistry, hcAutoInstall, hcTags, hcPulls, hcError>>

dedupVars == <<ddPc, ddProposals, ddIdx, ddEmbedding, ddCandidate,
               ddConcepts, ddEmbeddings, ddAccepted, ddRejected, ddBefore,
               ddJudged, ddCalls, ddDecisions, ddError, ddReturned>>

daemonVars == <<dmSocket, dmPidFile, dmPc, dmCall, dmIn, dmRead, dmDb,
                dmServer, dmActive, dmOutcome, dmShutdown, dmCalls>>

enrichVars == <<enPc, enRaw, enCounts>>

\* The state of the components an operation does not touch
notBatchVars == <<adaptVars, embedVars, migrationVars, healthVars,
                  dedupVars, daemonVars, enrichVars>>
notAdaptVars == <<batchVars, embedVars, migrationVars, healthVars,
                  dedupVars, daemonVars, enrichVars>>
notEmbedVars == <<batchVars, adaptVars, migrationVars, healthVars,
                  dedupVars, daemonVars, enrichVars>>
notMigrationVars == <<batchVars, adaptVars, embedVars, healthVars,
                      dedupVars, daemonVars, enrichVars>>
notHealthVars == <<batchVars, adaptVars, embedVars, migrationVars,
                   dedupVars, daemonVars, enrichVars>>
notDedupVars == <<batchVars, adaptVars, embedVars, migrationVars,
                  healthVars, daemonVars, enrichVars>>
notDaemonVars == <<batchVars, adaptVars, embedVars, migrationVars,
                   healthVars, dedupVars, enrichVars>>
notEnrichVars == <<batchVars, adaptVars, embedVars, migrationVars,
                   healthVars, dedupVars, daemonVars>>

vars == <<batchVars, adaptVars, embedVars, migrationVars, healthVars,
          dedupVars, daemonVars, enrichVars>>

NotCalled == [called |-> FALSE]

NoError == [kind |-> "none"]
NoReturn == [returned |-> FALSE]

Min(a, b) == IF a < b THEN a ELSE b

\* Variant: the quotient plus one, also when the division is exact
CeilDivPlusOne(a, b) == a \div b + 1

\* Math.ceil(a / b) for integers a >= 0, b > 0
CeilDiv(a, b) == (a + b - 1) \div b

\* ------------------------------------------------------------- the inputs
\* The process function of the tests: (n) => Effect.succeed(n * 2)
Process(item) == item * 2

\* Two input orders per length, so that result order is observable
ItemSeqs(n) == { [i \in 1..n |-> i], [i \in 1..n |-> n + 1 - i] }

Configs ==
  [ batchSize : 1..MaxBatchSize,
    concurrency : 1..MaxConcurrency,
    batchDelayMs : 0..MaxDelayMs,
    checkpointAfterBatch : BOOLEAN,
    adaptiveBatchSize : {FALSE} ]

DEFAULT_QUEUE_CONFIG ==
  [ batchSize |-> 20, concurrency |-> 3, batchDelayMs |-> 50,
    checkpointAfterBatch |-> TRUE, adaptiveBatchSize |-> TRUE ]

\* ------------------------------------------------- processInBatches, pure
\* Variant: Math.floor instead of Math.ceil
TotalBatchesFloor == Len(items) \div config.batchSize

\* const totalBatches = Math.ceil(items.length / config.batchSize)
TotalBatches == CeilDiv(Len(items), config.batchSize)

\* const start = batchIdx * config.batchSize
BatchStart(idx) == idx * config.batchSize

\* const end = Math.min(start + config.batchSize, items.length)
BatchEnd(idx) == Min(BatchStart(idx) + config.batchSize, Len(items))

\* ---------------------------------------------- double-precision numbers
\* JavaScript numbers are IEEE-754 binary64.  A positive double is modelled
\* as [m, e], the value m * 2^e, m an integer given by its bits, least
\* significant bit first (the integers of the model checker are too narrow
\* for a 53-bit significand).
RECURSIVE BitsToInt(_)
BitsToInt(b) == IF b = << >> THEN 0 ELSE Head(b) + 2 * BitsToInt(Tail(b))

RECURSIVE IntToBits(_)
IntToBits(x) == IF x = 0 THEN << >> ELSE <<x % 2>> \o IntToBits(x \div 2)

RECURSIVE Increment(_)
Increment(b) ==
  IF b = << >> THEN <<1>>
  ELSE IF Head(b) = 0 THEN <<1>> \o Tail(b)
  ELSE <<0>> \o Increment(Tail(b))

\* b * c + carry for a small integer c
RECURSIVE MulSmall(_, _, _)
MulSmall(b, c, carry) ==
  IF b = << >> THEN IntToBits(carry)
  ELSE LET t == Head(b) * c + carry
       IN <<t % 2>> \o MulSmall(Tail(b), c, t \div 2)

\* The next k bits of the quotient r / n (r < n), put in front of acc, and
\* the remainder left
RECURSIVE DivBits(_, _, _, _)
DivBits(r, n, k, acc) ==
  IF k = 0 THEN [bits |-> acc, rem |-> r]
  ELSE IF 2 * r >= n THEN DivBits(2 * r - n, n, k - 1, <<1>> \o acc)
  ELSE DivBits(2 * r, n, k - 1, <<0>> \o acc)

\* Round the integer b (at least 53 bits, leading bit 1, `sticky` when a
\* non-zero part below its last bit was cut off) to a 53-bit significand,
\* to nearest, ties to even: the result is m * 2^e.
RoundToDouble(b, sticky) ==
  LET d == Len(b) - 53
      kept == SubSeq(b, d + 1, Len(b))
      guard == IF d > 0 THEN b[d] ELSE 0
      low == sticky \/ \E i \in 1..(d - 1) : b[i] = 1
      up == guard = 1 /\ (low \/ kept[1] = 1)
  IN [m |-> IF up THEN Increment(kept) ELSE kept, e |-> d]

\* Least s >= 0 with p * 2^s >= n
RECURSIVE ShiftUp(_, _)
ShiftUp(p, n) == IF p >= n THEN 0 ELSE 1 + ShiftUp(2 * p, n)

\* Power of two, for the small exponents above
RECURSIVE Pow2(_)
Pow2(k) == IF k = 0 THEN 1 ELSE 2 * Pow2(k - 1)

\* Greatest t >= 0 with n * 2^t <= p, 0 when p < n
ShiftDown(p, n) == IF p >= n THEN ShiftUp(2 * n, p + 1) ELSE 0

\* The double p / n for integers 0 < p, n (the operator / of JavaScript):
\* scale to a quotient in [1, 2), take 54 bits of it and round
FDiv(p, n) ==
  LET s == ShiftUp(p, n)
      t == ShiftDown(p, n)
      num == p * Pow2(s)
      den == n * Pow2(t)
      q == DivBits(num - den, den, 53, <<1>>)
      r == RoundToDouble(q.bits, q.rem > 0)
  IN [m |-> r.m, e |-> r.e - 53 + t - s]

\* The double x * c for a small positive integer c (the operator *)
FMul(x, c) ==
  LET r == RoundToDouble(MulSmall(x.m, c, 0), FALSE)
  IN [m |-> r.m, e |-> x.e + r.e]

\* Math.round of a positive double: nearest integer, ties towards +Infinity
MathRound(x) ==
  IF x.e >= 0 THEN BitsToInt(x.m) * Pow2(x.e)
  ELSE IF -x.e > Len(x.m) THEN 0
  ELSE BitsToInt(SubSeq(x.m, 1 - x.e, Len(x.m))) + x.m[-x.e]

\* Math.round((processed / total) * 100), processed and total lengths > 0
Percent(processed, total) == MathRound(FMul(FDiv(processed, total), 100))

\* The slice the running stream iterates: items.slice(start, end) for
\* processInBatches, all the texts for embedBatch.  First/last index into
\* items (1-based, inclusive).
SliceFirst == IF api = "embedBatch" THEN 1 ELSE BatchStart(batchIdx) + 1
SliceLast == IF api = "embedBatch" THEN Len(items) ELSE BatchEnd(batchIdx)
SliceLen == SliceLast - SliceFirst + 1

\* { concurrency: config.concurrency } resp. { concurrency }
Concurrency == IF api = "embedBatch" THEN ebConcurrency ELSE config.concurrency

processorVars == <<cpOverride, cpFull, cpPc, cpAdaptive, cpTexts, cpBatchIdx,
                   cpSlices, cpRuns, cpGot>>

\* No processor is modelled
ProcessorIdle ==
  /\ cpOverride = << >>
  /\ cpFull = DEFAULT_QUEUE_CONFIG
  /\ cpPc = "idle"
  /\ cpAdaptive = [batchSize |-> 0]
  /\ cpTexts = 0
  /\ cpBatchIdx = 0
  /\ cpSlices = << >>
  /\ cpRuns = 0
  /\ cpGot = NotCalled

\* -------------------------------------------------- idle components
\* No batch run is modelled
BatchIdle ==
  /\ api = "none"
  /\ items = << >>
  /\ config = DEFAULT_QUEUE_CONFIG
  /\ afterBatch = FALSE
  /\ onProgress = FALSE
  /\ ebConcurrency = 0
  /\ pc = "idle"
  /\ batchIdx = 0
  /\ pulled = 0
  /\ running = {}
  /\ started = {}
  /\ collected = << >>
  /\ batchLog = << >>
  /\ results = << >>
  /\ progressLog = << >>
  /\ hookLog = << >>
  /\ sleeps = 0
  /\ error = NoError
  /\ returned = NoReturn

\* No call of getAdaptiveBatchSize and no processor is modelled
AdaptIdle ==
  /\ adBase = 0
  /\ adMem = [available |-> FALSE, heapUsed |-> 0, heapTotal |-> 0]
  /\ adResult = NotCalled
  /\ cpOverride = << >>
  /\ cpFull = DEFAULT_QUEUE_CONFIG
  /\ cpPc = "idle"
  /\ cpAdaptive = [batchSize |-> 0]
  /\ cpTexts = 0
  /\ cpBatchIdx = 0
  /\ cpSlices = << >>
  /\ cpRuns = 0
  /\ cpGot = NotCalled

\* No call of Ollama.embed is modelled
EmbedIdle ==
  /\ emPc = "idle"
  /\ emAttempts = 0
  /\ emErrors = << >>
  /\ emWaits = << >>
  /\ emResult = NoReturn
  /\ emError = NoError

\* The concept-embeddings migration is not run
MigrationIdle ==
  /\ mgPc = "idle"
  /\ mgConcepts = 0
  /\ mgStore = << >>
  /\ mgTotal = 0
  /\ mgProcessed = 0
  /\ mgErrors = 0
  /\ mgRows = << >>
  /\ mgEmbedding = NoReturn

\* No call of Ollama.checkHealth is modelled
HealthIdle ==
  /\ hcPc = "idle"
  /\ hcRegistry = {}
  /\ hcAutoInstall = FALSE
  /\ hcTags = "pending"
  /\ hcPulls = << >>
  /\ hcError = NoError

\* No deduplication run (autoAcceptProposals) is modelled
DedupIdle ==
  /\ ddPc = "idle"
  /\ ddProposals = << >>
  /\ ddIdx = 0
  /\ ddEmbedding = NoReturn
  /\ ddCandidate = "none"
  /\ ddConcepts = {}
  /\ ddEmbeddings = {}
  /\ ddAccepted = 0
  /\ ddRejected = 0
  /\ ddBefore = NoReturn
  /\ ddJudged = << >>
  /\ ddCalls = << >>
  /\ ddDecisions = << >>
  /\ ddError = NoError
  /\ ddReturned = NoReturn

\* No daemon call is modelled
DaemonIdle ==
  /\ dmSocket = FALSE
  /\ dmPidFile = [exists |-> FALSE, text |-> << >>]
  /\ dmPc = << >>
  /\ dmCall = << >>
  /\ dmIn = << >>
  /\ dmRead = << >>
  /\ dmDb = << >>
  /\ dmServer = << >>
  /\ dmActive = << >>
  /\ dmOutcome = << >>
  /\ dmCalls = 0
  /\ dmShutdown = << >>

\* No call of enrich is modelled
EnrichIdle ==
  /\ enPc = "idle"
  /\ enRaw = << >>
  /\ enCounts = NoReturn

NotBatchIdle == AdaptIdle /\ EmbedIdle /\ MigrationIdle /\ HealthIdle /\ DedupIdle /\ DaemonIdle /\ EnrichIdle
NotAdaptIdle == BatchIdle /\ EmbedIdle /\ MigrationIdle /\ HealthIdle /\ DedupIdle /\ DaemonIdle /\ EnrichIdle
NotEmbedIdle == BatchIdle /\ AdaptIdle /\ MigrationIdle /\ HealthIdle /\ DedupIdle /\ DaemonIdle /\ EnrichIdle
NotMigrationIdle == BatchIdle /\ AdaptIdle /\ EmbedIdle /\ HealthIdle /\ DedupIdle /\ DaemonIdle /\ EnrichIdle
NotHealthIdle == BatchIdle /\ AdaptIdle /\ EmbedIdle /\ MigrationIdle /\ DedupIdle /\ DaemonIdle /\ EnrichIdle
NotDedupIdle == BatchIdle /\ AdaptIdle /\ EmbedIdle /\ MigrationIdle /\ HealthIdle /\ DaemonIdle /\ EnrichIdle
NotDaemonIdle == BatchIdle /\ AdaptIdle /\ EmbedIdle /\ MigrationIdle /\ HealthIdle /\ DedupIdle /\ EnrichIdle
NotEnrichIdle == BatchIdle /\ AdaptIdle /\ EmbedIdle /\ MigrationIdle /\ HealthIdle /\ DedupIdle /\ DaemonIdle

\* ------------------------------------------------------------------- Init
Init ==
  /\ api \in {"processInBatches", "embedBatch"}
  /\ \E n \in 0..MaxItems : items \in ItemSeqs(n)
  /\ IF api = "processInBatches"
       THEN /\ config \in Configs
            /\ afterBatch \in BOOLEAN
            /\ onProgress \in BOOLEAN
            /\ ebConcurrency = 0
            /\ pc = "loop"
       ELSE /\ config = DEFAULT_QUEUE_CONFIG
            /\ afterBatch = FALSE
            /\ onProgress = FALSE
            /\ ebConcurrency \in 1..MaxConcurrency
            /\ pc = "stream"
  /\ batchIdx = 0
  /\ pulled = 0
  /\ running = {}
  /\ started = {}
  /\ collected = << >>
  /\ batchLog = << >>
  /\ results = << >>
  /\ progressLog = << >>
  /\ hookLog = << >>
  /\ sleeps = 0
  /\ error = NoError
  /\ returned = NoReturn
  /\ NotBatchIdle

\* ------------------------------------------- Stream.mapEffect(process, n)
\* The stream pulls the elements of the slice in order and runs process on
\* each, holding one of `concurrency` permits while the call is in flight.
\* Variant: the permit count is off by one
PermitFreeOffByOne == Cardinality(running) <= Concurrency

\* A permit of the semaphore of mapEffect is free
PermitFree == Cardinality(running) < Concurrency

StartItem ==
  /\ pc = "stream"
  /\ pulled < SliceLen
  /\ PermitFree
  /\ pulled' = pulled + 1
  /\ running' = running \cup {SliceFirst + pulled}
  /\ started' = started \cup {SliceFirst + pulled}
  /\ UNCHANGED <<notBatchVars, api, items, config, afterBatch, onProgress, ebConcurrency,
                 pc, batchIdx, collected, batchLog, results, progressLog,
                 hookLog, sleeps, error, returned>>

\* A call in flight succeeds; calls complete in any order.
CompleteItem(i) ==
  /\ pc = "stream"
  /\ i \in running
  /\ running' = running \ {i}
  /\ collected' = Append(collected, [index |-> i, value |-> Process(items[i])])
  /\ UNCHANGED <<notBatchVars, api, items, config, afterBatch, onProgress, ebConcurrency,
                 pc, batchIdx, pulled, started, batchLog, results,
                 progressLog, hookLog, sleeps, error, returned>>

\* Variant: the failure of a call is caught and the stream goes on
FailItemSwallowed(i) ==
  /\ pc = "stream"
  /\ i \in running
  /\ running' = running \ {i}
  /\ collected' = Append(collected, [index |-> i, value |-> 0])
  /\ error' = [kind |-> "item", item |-> i]
  /\ UNCHANGED <<notBatchVars, api, items, config, afterBatch, onProgress, ebConcurrency,
                 pc, batchIdx, pulled, started, batchLog, results,
                 progressLog, hookLog, sleeps, returned>>

\* A call in flight fails: the stream fails with that error, the other
\* calls in flight are interrupted and the generator never resumes.
FailItem(i) ==
  /\ pc = "stream"
  /\ i \in running
  /\ running' = {}
  /\ error' = [kind |-> "item", item |-> i]
  /\ pc' = "failed"
  /\ UNCHANGED <<notBatchVars, api, items, config, afterBatch, onProgress, ebConcurrency,
                 batchIdx, pulled, started, collected, batchLog, results,
                 progressLog, hookLog, sleeps, returned>>

\* Stream.runCollect has every element of the slice
StreamDone == pulled = SliceLen /\ running = {}

\* The value the call on items[i] completed with
ResultOf(i) ==
  (CHOOSE c \in {collected[k] : k \in 1..Len(collected)} : c.index = i).value

\* Variant: an unordered mapEffect, results in completion order
BatchResultsUnordered == [k \in 1..SliceLen |-> collected[k].value]

\* Chunk.toArray of the collected chunk: mapEffect is ordered, the chunk
\* holds the results in the order of the slice, not of completion
BatchResults == [k \in 1..SliceLen |-> ResultOf(SliceFirst + k - 1)]

\* ------------------------------------------------------ Ollama.embedBatch
\* Variant: the vectors are returned in the order the calls completed
EmbedBatchReturnCompletionOrder ==
  /\ api = "embedBatch"
  /\ pc = "stream"
  /\ StreamDone
  /\ returned' = [returned |-> TRUE,
                  value |-> [k \in 1..Len(collected) |-> collected[k].value]]
  /\ pc' = "done"
  /\ UNCHANGED <<notBatchVars, api, items, config, afterBatch, onProgress,
                 ebConcurrency, batchIdx, pulled, running, started,
                 collected, batchLog, results, progressLog, hookLog, sleeps,
                 error>>

\* Stream.runCollect |> Effect.map(Chunk.toArray): the effect succeeds with
\* the vectors in the order of texts.
EmbedBatchReturn ==
  /\ api = "embedBatch"
  /\ pc = "stream"
  /\ StreamDone
  /\ returned' = [returned |-> TRUE, value |-> BatchResults]
  /\ pc' = "done"
  /\ UNCHANGED <<notBatchVars, api, items, config, afterBatch, onProgress, ebConcurrency,
                 batchIdx, pulled, running, started, collected, batchLog,
                 results, progressLog, hookLog, sleeps, error>>

\* ------------------------------------------- processInBatches, generator
\* for (let batchIdx = 0; batchIdx < totalBatches; batchIdx++) { slice and
\* start the stream }   ...   return results
LoopHead ==
  /\ api = "processInBatches"
  /\ pc = "loop"
  /\ IF batchIdx < TotalBatches
       THEN /\ pc' = "stream"
            /\ pulled' = 0
            /\ running' = {}
            /\ collected' = << >>
            /\ batchLog' = Append(batchLog, [start |-> BatchStart(batchIdx),
                                             end |-> BatchEnd(batchIdx)])
            /\ UNCHANGED returned
       ELSE /\ pc' = "done"
            /\ returned' = [returned |-> TRUE, value |-> results]
            /\ UNCHANGED <<pulled, running, collected, batchLog>>
  /\ UNCHANGED <<notBatchVars, api, items, config, afterBatch, onProgress, ebConcurrency,
                 batchIdx, started, results, progressLog, hookLog, sleeps,
                 error>>

\* Variant: processed counts the current batch only
ProgressEventPerBatch(res) ==
  [ batch |-> batchIdx + 1,
    totalBatches |-> TotalBatches,
    processed |-> SliceLen,
    total |-> Len(items),
    percent |-> Percent(SliceLen, Len(items)) ]

\* The record handed to onProgress after `res` results are in the array
ProgressEvent(res) ==
  [ batch |-> batchIdx + 1,
    totalBatches |-> TotalBatches,
    processed |-> Len(res),
    total |-> Len(items),
    percent |-> Percent(Len(res), Len(items)) ]

\* Variant: the hook is guarded like the pause and skips the last batch
HookEnabledSkipLast ==
  afterBatch /\ config.checkpointAfterBatch /\ batchIdx < TotalBatches - 1

\* Variant: the hook runs whenever it is supplied
HookEnabledIgnoreFlag == afterBatch

\* if (afterBatch && config.checkpointAfterBatch)
HookEnabled == afterBatch /\ config.checkpointAfterBatch

\* Variant: the run pauses after the last batch too
ShouldSleepAfterLast == config.batchDelayMs > 0 /\ batchIdx < TotalBatches

\* Variant: the pause before the last batch is skipped as well
ShouldSleepOffByOne == config.batchDelayMs > 0 /\ batchIdx < TotalBatches - 2

\* if (config.batchDelayMs > 0 && batchIdx < totalBatches - 1)
ShouldSleep == config.batchDelayMs > 0 /\ batchIdx < TotalBatches - 1

\* Backpressure step and loop increment: start the pause, or go on at once
PauseOrContinue ==
  IF ShouldSleep
    THEN /\ sleeps' = sleeps + 1
         /\ pc' = "sleep"
         /\ UNCHANGED batchIdx
    ELSE /\ batchIdx' = batchIdx + 1
         /\ pc' = "loop"
         /\ UNCHANGED sleeps

\* The stream of the batch has completed: results.push(...batchResults),
\* onProgress(...), then afterBatch() is invoked when enabled.
CollectBatch ==
  /\ api = "processInBatches"
  /\ pc = "stream"
  /\ StreamDone
  /\ results' = results \o BatchResults
  /\ progressLog' = IF onProgress
                      THEN Append(progressLog, ProgressEvent(results'))
                      ELSE progressLog
  /\ IF HookEnabled
       THEN /\ hookLog' = Append(hookLog, batchIdx + 1)
            /\ pc' = "hook"
            /\ UNCHANGED <<batchIdx, sleeps>>
       ELSE /\ PauseOrContinue
            /\ UNCHANGED hookLog
  /\ UNCHANGED <<notBatchVars, api, items, config, afterBatch, onProgress, ebConcurrency,
                 pulled, running, started, collected, batchLog, error,
                 returned>>

\* yield* afterBatch() succeeded
HookSucceed ==
  /\ pc = "hook"
  /\ PauseOrContinue
  /\ UNCHANGED <<notBatchVars, api, items, config, afterBatch, onProgress, ebConcurrency,
                 pulled, running, started, collected, batchLog, results,
                 progressLog, hookLog, error, returned>>

\* Variant: the failure of the hook is recorded but the loop goes on
HookFailSwallowed ==
  /\ pc = "hook"
  /\ error' = [kind |-> "hook", batch |-> batchIdx + 1]
  /\ PauseOrContinue
  /\ UNCHANGED <<notBatchVars, api, items, config, afterBatch, onProgress, ebConcurrency,
                 pulled, running, started, collected, batchLog, results,
                 progressLog, hookLog, returned>>

\* yield* afterBatch() failed: the generator ends with the hook's error
HookFail ==
  /\ pc = "hook"
  /\ error' = [kind |-> "hook", batch |-> batchIdx + 1]
  /\ pc' = "failed"
  /\ UNCHANGED <<notBatchVars, api, items, config, afterBatch, onProgress, ebConcurrency,
                 batchIdx, pulled, running, started, collected, batchLog,
                 results, progressLog, hookLog, sleeps, returned>>

\* Effect.sleep(Duration.millis(config.batchDelayMs)) has elapsed
Wake ==
  /\ pc = "sleep"
  /\ batchIdx' = batchIdx + 1
  /\ pc' = "loop"
  /\ UNCHANGED <<notBatchVars, api, items, config, afterBatch, onProgress, ebConcurrency,
                 pulled, running, started, collected, batchLog, results,
                 progressLog, hookLog, sleeps, error, returned>>

\* ------------------------------------------------------------------- Spec
Next ==
  \/ StartItem
  \/ \E i \in 1..Len(items) : CompleteItem(i)
  \/ \E i \in 1..Len(items) : FailItem(i)
  \/ EmbedBatchReturn
  \/ LoopHead
  \/ CollectBatch
  \/ HookSucceed
  \/ HookFail
  \/ Wake

Spec == Init /\ [][Next]_vars

\* Long sequential runs: inputs up to MaxLargeItems items, every batch size,
\* one call at a time, progress reported, no hook, no pause, no failure.
MaxLargeItems == 40

InitLarge ==
  /\ api = "processInBatches"
  /\ \E n \in 1..MaxLargeItems :
       /\ items \in ItemSeqs(n)
       /\ config \in [ batchSize : 1..n, concurrency : {1},
                       batchDelayMs : {0}, checkpointAfterBatch : {FALSE},
                       adaptiveBatchSize : {FALSE} ]
  /\ afterBatch = FALSE
  /\ onProgress = TRUE
  /\ ebConcurrency = 0
  /\ pc = "loop"
  /\ batchIdx = 0
  /\ pulled = 0
  /\ running = {}
  /\ started = {}
  /\ collected = << >>
  /\ batchLog = << >>
  /\ results = << >>
  /\ progressLog = << >>
  /\ hookLog = << >>
  /\ sleeps = 0
  /\ error = NoError
  /\ returned = NoReturn
  /\ NotBatchIdle

NextLarge ==
  \/ StartItem
  \/ \E i \in 1..Len(items) : CompleteItem(i)
  \/ LoopHead
  \/ CollectBatch

SpecLarge == InitLarge /\ [][NextLarge]_vars

\* -------------------------------------------------- getAdaptiveBatchSize
MaxBase == 40
MaxHeap == 20
MaxRuns == 2

Max(a, b) == IF a > b THEN a ELSE b

\* The i-th bit of a significand counted from its leading bit (i = 0), 0
\* below its last bit
TopBit(b, i) == IF i < Len(b) THEN b[Len(b) - i] ELSE 0

RECURSIVE BitsGreater(_, _, _)
BitsGreater(a, b, i) ==
  IF i >= Max(Len(a), Len(b)) THEN FALSE
  ELSE IF TopBit(a, i) # TopBit(b, i) THEN TopBit(a, i) > TopBit(b, i)
  ELSE BitsGreater(a, b, i + 1)

\* x > y for positive doubles (leading bit of each significand set)
FGreater(x, y) ==
  \/ Len(x.m) + x.e > Len(y.m) + y.e
  \/ Len(x.m) + x.e = Len(y.m) + y.e /\ BitsGreater(x.m, y.m, 0)

\* const heapUsedRatio = mem.heapUsed / mem.heapTotal
HeapUsedRatio == FDiv(adMem.heapUsed, adMem.heapTotal)

\* The decimal literals 0.85, 0.7 and 0.5: the doubles nearest to 85/100,
\* 7/10 and 1/2
Literal(num, den) == FDiv(num, den)

\* Variant: the size is scaled up under pressure
getAdaptiveBatchSizeScaledUp(baseBatchSize) ==
  IF adMem.available
    THEN IF FGreater(HeapUsedRatio, Literal(85, 100))
           THEN Max(10, baseBatchSize * 4)
         ELSE IF FGreater(HeapUsedRatio, Literal(7, 10))
           THEN Max(10, baseBatchSize * 2)
         ELSE IF FGreater(HeapUsedRatio, Literal(1, 2))
           THEN Max(10, (5 * baseBatchSize) \div 4)
         ELSE baseBatchSize
    ELSE baseBatchSize

\* getAdaptiveBatchSize(baseBatchSize).  The products baseBatchSize * 0.25,
\* * 0.5 and * 0.75 are exact in double precision for the sizes modelled
\* (0.25, 0.5 and 0.75 are doubles), so Math.floor of them is the integer
\* quotient.
getAdaptiveBatchSize(baseBatchSize) ==
  IF adMem.available
    THEN IF FGreater(HeapUsedRatio, Literal(85, 100))
           THEN Max(10, baseBatchSize \div 4)
         ELSE IF FGreater(HeapUsedRatio, Literal(7, 10))
           THEN Max(10, baseBatchSize \div 2)
         ELSE IF FGreater(HeapUsedRatio, Literal(1, 2))
           THEN Max(10, (3 * baseBatchSize) \div 4)
         ELSE baseBatchSize
    ELSE baseBatchSize

InitAdaptive ==
  /\ NotAdaptIdle
  /\ adBase \in 1..MaxBase
  /\ adMem \in {[available |-> FALSE, heapUsed |-> 0, heapTotal |-> 0]} \cup
               {[available |-> TRUE, heapUsed |-> u, heapTotal |-> MaxHeap] :
                  u \in 1..MaxHeap}
  /\ adResult = NotCalled
  /\ ProcessorIdle

\* One call of getAdaptiveBatchSize
GetAdaptiveBatchSize ==
  /\ adBase > 0
  /\ adResult = NotCalled
  /\ adResult' = [called |-> TRUE, value |-> getAdaptiveBatchSize(adBase)]
  /\ UNCHANGED <<notAdaptVars, adBase, adMem, processorVars>>

NextAdaptive == GetAdaptiveBatchSize

SpecAdaptive == InitAdaptive /\ [][NextAdaptive]_vars

\* ------------------------------------------------ createEmbeddingProcessor
\* const fullConfig = { ...DEFAULT_QUEUE_CONFIG, ...config }: the caller's
\* keys override the defaults, the other keys keep them
Merge(defaults, overrides) ==
  [f \in DOMAIN defaults |->
     IF f \in DOMAIN overrides THEN overrides[f] ELSE defaults[f]]

NoOverride == [f \in {} |-> 0]

\* The config argument: a Partial<EmbeddingQueueConfig>
Overrides ==
  { NoOverride,
    [batchSize |-> 100, concurrency |-> 10],
    [batchSize |-> 12],
    [batchSize |-> 5, batchDelayMs |-> 0],
    [batchSize |-> 40, adaptiveBatchSize |-> FALSE] }

\* What process.memoryUsage may report from one moment to the next
MemoryReadings ==
  {[available |-> FALSE, heapUsed |-> 0, heapTotal |-> 0]} \cup
  {[available |-> TRUE, heapUsed |-> u, heapTotal |-> 20] :
     u \in {1, 12, 15, 18}}

\* texts.length
TextCounts == {0, 7, 45}

NoRun == [batchSize |-> 0]

InitProcessor ==
  /\ NotAdaptIdle
  /\ adBase = 0
  /\ adResult = NotCalled
  /\ adMem \in MemoryReadings
  /\ cpOverride \in Overrides
  /\ cpFull = Merge(DEFAULT_QUEUE_CONFIG, cpOverride)
  /\ cpPc = "idle"
  /\ cpAdaptive = NoRun
  /\ cpTexts = 0
  /\ cpBatchIdx = 0
  /\ cpSlices = << >>
  /\ cpRuns = 0
  /\ cpGot = NotCalled

\* embedBatch(texts): adaptiveConfig is a fresh object with fullConfig's
\* keys and the batch size of the moment; processInBatches gets that object
CallEmbedBatch(n) ==
  /\ cpPc = "idle"
  /\ cpRuns < MaxRuns
  /\ cpAdaptive' =
       [cpFull EXCEPT !.batchSize =
          IF cpFull.adaptiveBatchSize
            THEN getAdaptiveBatchSize(cpFull.batchSize)
            ELSE cpFull.batchSize]
  /\ cpTexts' = n
  /\ cpBatchIdx' = 0
  /\ cpSlices' = << >>
  /\ cpRuns' = cpRuns + 1
  /\ cpPc' = "run"
  /\ UNCHANGED <<notAdaptVars, adBase, adMem, adResult, cpOverride, cpFull,
                 cpGot>>

\* Variant: the size is computed again for every batch
RunBatchSizeOfTheMoment ==
  IF cpFull.adaptiveBatchSize
    THEN getAdaptiveBatchSize(cpFull.batchSize)
    ELSE cpFull.batchSize

\* config.batchSize as processInBatches reads it from its config argument
RunBatchSize == cpAdaptive.batchSize

\* One turn of the loop of processInBatches: the slice of batch batchIdx
RunBatchSlice ==
  /\ cpPc = "run"
  /\ cpBatchIdx < CeilDiv(cpTexts, cpAdaptive.batchSize)
  /\ LET start == cpBatchIdx * RunBatchSize
         end == Min(start + RunBatchSize, cpTexts)
     IN  cpSlices' = Append(cpSlices, [start |-> start, end |-> end])
  /\ cpBatchIdx' = cpBatchIdx + 1
  /\ UNCHANGED <<notAdaptVars, adBase, adMem, adResult, cpOverride, cpFull,
                 cpPc, cpAdaptive, cpTexts, cpRuns, cpGot>>

\* The loop is over and the run returns its results
ProcessorRunReturns ==
  /\ cpPc = "run"
  /\ cpBatchIdx >= CeilDiv(cpTexts, cpAdaptive.batchSize)
  /\ cpPc' = "idle"
  /\ UNCHANGED <<notAdaptVars, adBase, adMem, adResult, cpOverride, cpFull,
                 cpAdaptive, cpTexts, cpBatchIdx, cpSlices, cpRuns, cpGot>>

\* embedFn or checkpointFn fails in the batch just sliced and the run fails
ProcessorRunFails ==
  /\ cpPc = "run"
  /\ cpSlices # << >>
  /\ cpPc' = "idle"
  /\ UNCHANGED <<notAdaptVars, adBase, adMem, adResult, cpOverride, cpFull,
                 cpAdaptive, cpTexts, cpBatchIdx, cpSlices, cpRuns, cpGot>>

\* The heap grows or is collected while the processor exists
MemoryPressureChanges ==
  /\ adMem' \in MemoryReadings \ {adMem}
  /\ UNCHANGED <<notAdaptVars, adBase, adResult, processorVars>>

\* getConfig: () => fullConfig
GetConfig ==
  /\ cpGot' = [called |-> TRUE, value |-> cpFull]
  /\ cpGot' # cpGot
  /\ UNCHANGED <<notAdaptVars, adBase, adMem, adResult, cpOverride, cpFull,
                 cpPc, cpAdaptive, cpTexts, cpBatchIdx, cpSlices, cpRuns>>

NextProcessor ==
  \/ \E n \in TextCounts : CallEmbedBatch(n)
  \/ RunBatchSlice
  \/ ProcessorRunReturns
  \/ ProcessorRunFails
  \/ MemoryPressureChanges
  \/ GetConfig

SpecProcessor == InitProcessor /\ [][NextProcessor]_vars

\* ---------------------------------------------------------- Ollama.embed
\* const EXPECTED_EMBEDDING_DIMENSION = 1024
EXPECTED_EMBEDDING_DIMENSION == 1024

\* Schedule.exponential(Duration.millis(100)) composed with
\* Schedule.recurs(3)
RetryBaseMs == 100
RetryRecurs == 3

\* The components a parsed JSON array can carry: finite numbers, the
\* infinities (a literal such as 1e999 parses to Infinity) and null
FiniteNumbers == {"0.5", "-1.5"}
Components == FiniteNumbers \cup {"Infinity", "-Infinity", "null"}

\* Number.isFinite(v)
IsFinite(v) == v \in FiniteNumbers

\* The array of length n whose k-th component is v, all others 0.5
Vec(n, k, v) == [i \in 1..n |-> IF i = k THEN v ELSE "0.5"]

\* The embedding arrays the service answers with: empty, short, long and
\* of the expected length, with one chosen component at either end
Vectors ==
  {Vec(n, k, v) :
     n \in {0, 1, EXPECTED_EMBEDDING_DIMENSION - 1,
            EXPECTED_EMBEDDING_DIMENSION, EXPECTED_EMBEDDING_DIMENSION + 1},
     k \in {1, EXPECTED_EMBEDDING_DIMENSION},
     v \in Components}

\* What one request to /api/embeddings ends with: the fetch rejects, a
\* non-OK status whose body can or cannot be read, a body that is no JSON,
\* or a JSON body with an embedding array
Responses ==
  {[kind |-> k, embedding |-> << >>] :
     k \in {"unreachable", "notOk", "notOkUnreadable", "badJson"}} \cup
  {[kind |-> "json", embedding |-> v] : v \in Vectors}

OllamaError(reason, dim) == [kind |-> "OllamaError", reason |-> reason, dim |-> dim]

\* validateEmbedding(embedding): NoError when the effect succeeds with the
\* array, the OllamaError it fails with otherwise
validateEmbedding(embedding) ==
  IF Len(embedding) = 0
    THEN OllamaError("Invalid embedding: dimension", 0)
  ELSE IF Len(embedding) # EXPECTED_EMBEDDING_DIMENSION
    THEN OllamaError("Invalid embedding: dimension", Len(embedding))
  ELSE IF \E i \in 1..Len(embedding) : ~IsFinite(embedding[i])
    THEN OllamaError("Invalid embedding: contains non-finite values", 0)
  ELSE NoError

\* The failure of one pass through the generator of embedSingle on the
\* response resp, NoError when it succeeds
AttemptError(resp) ==
  CASE resp.kind = "unreachable" -> OllamaError("Connection failed", 0)
    [] resp.kind = "notOk" -> OllamaError("response.text()", 0)
    [] resp.kind = "notOkUnreadable" ->
         OllamaError("Failed to read error response", 0)
    [] resp.kind = "badJson" -> OllamaError("Invalid JSON response", 0)
    [] resp.kind = "json" -> validateEmbedding(resp.embedding)

\* The delay before the k-th retry (k = 1, 2, ...): the base doubled each
\* time
RetryDelay(k) == RetryBaseMs * Pow2(k - 1)

InitEmbed ==
  /\ NotEmbedIdle
  /\ emPc = "call"
  /\ emAttempts = 0
  /\ emErrors = << >>
  /\ emWaits = << >>
  /\ emResult = NoReturn
  /\ emError = NoError

\* An attempt gets a response the generator succeeds on: embed returns
EmbedAttemptSucceeds(resp) ==
  /\ emPc = "call"
  /\ AttemptError(resp) = NoError
  /\ emAttempts' = emAttempts + 1
  /\ emResult' = [returned |-> TRUE, value |-> resp.embedding]
  /\ emPc' = "done"
  /\ UNCHANGED <<notEmbedVars, emErrors, emWaits, emError>>

\* Variant: a schedule with a single recurrence
RetryAllowedOnce(failure) == Len(emWaits) < 1

\* Effect.retry with the schedule: every failure of the generator is
\* retried while the schedule has recurrences left
RetryAllowed(failure) == Len(emWaits) < RetryRecurs

\* An attempt fails: the schedule either sleeps before the next attempt or
\* is exhausted and embed fails with the error of this attempt
EmbedAttemptFails(resp) ==
  /\ emPc = "call"
  /\ AttemptError(resp) # NoError
  /\ emAttempts' = emAttempts + 1
  /\ emErrors' = Append(emErrors, AttemptError(resp))
  /\ IF RetryAllowed(AttemptError(resp))
       THEN /\ emPc' = "wait"
            /\ emWaits' = Append(emWaits, RetryDelay(Len(emWaits) + 1))
            /\ UNCHANGED emError
       ELSE /\ emPc' = "failed"
            /\ emError' = AttemptError(resp)
            /\ UNCHANGED emWaits
  /\ UNCHANGED <<notEmbedVars, emResult>>

\* The delay has elapsed: the generator runs again
RetryElapsed ==
  /\ emPc = "wait"
  /\ emPc' = "call"
  /\ UNCHANGED <<notEmbedVars, emAttempts, emErrors, emWaits, emResult,
                 emError>>

NextEmbed ==
  \/ \E resp \in Responses : EmbedAttemptSucceeds(resp)
  \/ \E resp \in Responses : EmbedAttemptFails(resp)
  \/ RetryElapsed

SpecEmbed == InitEmbed /\ [][NextEmbed]_vars

\* Ollama.embed with the scheduling the code gives it: once the delay of
\* the retry schedule has elapsed the next request is sent (Effect.sleep is
\* a timer of the runtime).  Whether and when the service answers a request
\* is up to the service: the fetch carries no signal and no timeout, so
\* nothing in the code makes a pending request end.
SpecEmbedFair == SpecEmbed /\ WF_vars(RetryElapsed)

\* ------------------------------ scripts/migration/add-concept-embeddings
MaxConcepts == 6
MaxMigrationErrors == 3

\* const EMBEDDING_DIM = 1024, const BATCH_SIZE = 5
EMBEDDING_DIM == 1024
BATCH_SIZE == 5

NoRow == << "no row" >>

\* What the request of getEmbedding ends with: a rejected fetch, a non-OK
\* status, or a JSON body with an embedding that is valid, one short, or
\* of the right length with an infinity in it
MigrationResponses ==
  {[kind |-> k, embedding |-> << >>] : k \in {"unreachable", "notOk"}} \cup
  {[kind |-> "json", embedding |-> v] :
     v \in {Vec(EMBEDDING_DIM, 1, "0.5"),
            Vec(EMBEDDING_DIM - 1, 1, "0.5"),
            Vec(EMBEDDING_DIM, EMBEDDING_DIM, "Infinity")}}

\* getEmbedding(text) returns data.embedding on this response (it throws
\* otherwise): the status is OK and the length is EMBEDDING_DIM
getEmbeddingReturns(resp) ==
  /\ resp.kind = "json"
  /\ Len(resp.embedding) = EMBEDDING_DIM

\* JSON.stringify(embedding), kept as the sequence of the printed
\* components: a non-finite number is printed as null
JsonStringify(embedding) ==
  [i \in 1..Len(embedding) |->
     IF IsFinite(embedding[i]) THEN embedding[i] ELSE "null"]

\* The ids of the first k concepts without a row in concept_embeddings
\* (SELECT ... WHERE e.concept_id IS NULL LIMIT k, in table order)
RECURSIVE MissingFrom(_, _)
MissingFrom(i, k) ==
  IF i > mgConcepts \/ k = 0 THEN << >>
  ELSE IF mgStore[i] = NoRow THEN <<i>> \o MissingFrom(i + 1, k - 1)
  ELSE MissingFrom(i + 1, k)

InitMigration ==
  /\ NotMigrationIdle
  /\ mgPc = "count"
  /\ mgConcepts \in 0..MaxConcepts
  /\ mgStore = [i \in 1..mgConcepts |-> NoRow]
  /\ mgTotal = 0
  /\ mgProcessed = 0
  /\ mgErrors = 0
  /\ mgRows = << >>
  /\ mgEmbedding = NoReturn

\* SELECT COUNT(*) of the concepts without embedding; return when none
CountMissing ==
  /\ mgPc = "count"
  /\ mgTotal' = Len(MissingFrom(1, mgConcepts))
  /\ mgPc' = IF mgTotal' = 0 THEN "done" ELSE "loop"
  /\ UNCHANGED <<notMigrationVars, mgConcepts, mgStore, mgProcessed,
                 mgErrors, mgRows, mgEmbedding>>

\* while (processed < total): select the next batch, break when it is empty
FetchBatch ==
  /\ mgPc = "loop"
  /\ IF mgProcessed < mgTotal /\ MissingFrom(1, BATCH_SIZE) # << >>
       THEN /\ mgRows' = MissingFrom(1, BATCH_SIZE)
            /\ mgPc' = "row"
       ELSE /\ mgPc' = "done"
            /\ UNCHANGED mgRows
  /\ UNCHANGED <<notMigrationVars, mgConcepts, mgStore, mgTotal,
                 mgProcessed, mgErrors, mgEmbedding>>

\* The for loop moves to the next row, and to the loop head after the last
NextRow ==
  /\ mgRows' = Tail(mgRows)
  /\ mgPc' = IF Tail(mgRows) = << >> THEN "loop" ELSE "row"

\* errors++, the count being kept up to MaxMigrationErrors and no further
CountError == Min(mgErrors + 1, MaxMigrationErrors)

\* const embedding = await getEmbedding(text) returns
GetEmbeddingReturns(resp) ==
  /\ mgPc = "row"
  /\ getEmbeddingReturns(resp)
  /\ mgEmbedding' = [returned |-> TRUE, value |-> resp.embedding]
  /\ mgPc' = "insert"
  /\ UNCHANGED <<notMigrationVars, mgConcepts, mgStore, mgTotal,
                 mgProcessed, mgErrors, mgRows>>

\* getEmbedding throws: the catch block counts the error
GetEmbeddingThrows(resp) ==
  /\ mgPc = "row"
  /\ ~getEmbeddingReturns(resp)
  /\ mgErrors' = CountError
  /\ NextRow
  /\ UNCHANGED <<notMigrationVars, mgConcepts, mgStore, mgTotal,
                 mgProcessed, mgEmbedding>>

\* The INSERT ... VALUES (?, vector32(?)) succeeds: the row holds the text
\* handed over, processed++
InsertSucceeds ==
  /\ mgPc = "insert"
  /\ mgStore' = [mgStore EXCEPT ![Head(mgRows)] =
                   JsonStringify(mgEmbedding.value)]
  /\ mgProcessed' = mgProcessed + 1
  /\ mgEmbedding' = NoReturn
  /\ NextRow
  /\ UNCHANGED <<notMigrationVars, mgConcepts, mgTotal, mgErrors>>

\* The INSERT is rejected by the database: the catch block counts the error
InsertFails ==
  /\ mgPc = "insert"
  /\ mgErrors' = CountError
  /\ mgEmbedding' = NoReturn
  /\ NextRow
  /\ UNCHANGED <<notMigrationVars, mgConcepts, mgStore, mgTotal,
                 mgProcessed>>

NextMigration ==
  \/ CountMissing
  \/ FetchBatch
  \/ \E resp \in MigrationResponses : GetEmbeddingReturns(resp)
  \/ \E resp \in MigrationResponses : GetEmbeddingThrows(resp)
  \/ InsertSucceeds
  \/ InsertFails

SpecMigration == InitMigration /\ [][NextMigration]_vars

\* The script is one thread of awaits: as long as it has a next statement and
\* its requests are answered (with a result or an error), it takes it
SpecMigrationFair == SpecMigration /\ WF_vars(NextMigration)

\* ----------------------------------------------------- Ollama.checkHealth
\* Model names are strings, kept as sequences of characters.
\* config.embedding.model
ModelName == <<"m", "x">>

\* Names a registry can list: the model itself, the model with a tag, a
\* longer name it is a prefix of, a shorter name, another model
RegistryNames ==
  {<<"m", "x">>, <<"m", "x", ":", "l">>, <<"m", "x", "b">>, <<"m">>,
   <<"o", ":", "l">>}

\* s.startsWith(p)
StartsWith(s, p) == Len(s) >= Len(p) /\ SubSeq(s, 1, Len(p)) = p

\* Variant: any name the model name is a prefix of counts
hasModelAnyPrefix ==
  \E name \in hcRegistry : name = ModelName \/ StartsWith(name, ModelName)

\* data.models.some((m) => m.name === modelName ||
\*                         m.name.startsWith(`${modelName}:`))
hasModel ==
  \E name \in hcRegistry :
    name = ModelName \/ StartsWith(name, ModelName \o <<":">>)

InitHealth ==
  /\ NotHealthIdle
  /\ hcPc = "tags"
  /\ hcRegistry \in SUBSET RegistryNames
  /\ hcAutoInstall \in BOOLEAN
  /\ hcTags = "pending"
  /\ hcPulls = << >>
  /\ hcError = NoError

\* The request to /api/tags fails: fetch rejects, the status is not OK, or
\* the body is no JSON
TagsFails(how) ==
  /\ hcPc = "tags"
  /\ hcTags' = how
  /\ hcError' =
       CASE how = "unreachable" -> OllamaError("Cannot connect to Ollama", 0)
         [] how = "notOk" -> OllamaError("Ollama not responding", 0)
         [] how = "badJson" -> OllamaError("Invalid response from Ollama", 0)
  /\ hcPc' = "failed"
  /\ UNCHANGED <<notHealthVars, hcRegistry, hcAutoInstall, hcPulls>>

\* The registry lists the model: checkHealth succeeds
TagsListModel ==
  /\ hcPc = "tags"
  /\ hasModel
  /\ hcTags' = "ok"
  /\ hcPc' = "done"
  /\ UNCHANGED <<notHealthVars, hcRegistry, hcAutoInstall, hcPulls, hcError>>

\* The model is absent and autoInstall is set: `ollama pull` is spawned
ModelMissingInstall ==
  /\ hcPc = "tags"
  /\ ~hasModel
  /\ hcAutoInstall
  /\ hcTags' = "ok"
  /\ hcPulls' = Append(hcPulls, ModelName)
  /\ hcPc' = "install"
  /\ UNCHANGED <<notHealthVars, hcRegistry, hcAutoInstall, hcError>>

\* The model is absent and autoInstall is off: fail, naming the model
ModelMissingFail ==
  /\ hcPc = "tags"
  /\ ~hasModel
  /\ ~hcAutoInstall
  /\ hcTags' = "ok"
  /\ hcError' = [kind |-> "OllamaError", reason |-> "Model not found",
                 model |-> ModelName]
  /\ hcPc' = "failed"
  /\ UNCHANGED <<notHealthVars, hcRegistry, hcAutoInstall, hcPulls>>

\* `ollama pull` closes with exit code 0: checkHealth succeeds
InstallSucceeds ==
  /\ hcPc = "install"
  /\ hcPc' = "done"
  /\ UNCHANGED <<notHealthVars, hcRegistry, hcAutoInstall, hcTags, hcPulls,
                 hcError>>

\* `ollama pull` closes with another exit code or cannot be spawned
InstallFails ==
  /\ hcPc = "install"
  /\ hcError' = OllamaError("Auto-install failed", 0)
  /\ hcPc' = "failed"
  /\ UNCHANGED <<notHealthVars, hcRegistry, hcAutoInstall, hcTags, hcPulls>>

NextHealth ==
  \/ \E how \in {"unreachable", "notOk", "badJson"} : TagsFails(how)
  \/ TagsListModel
  \/ ModelMissingInstall
  \/ ModelMissingFail
  \/ InstallSucceeds
  \/ InstallFails

SpecHealth == InitHealth /\ [][NextHealth]_vars

\* ------------------------------------ llmJudgeDuplicate (DuplicateJudge)
\* Strings are kept as sequences of characters.
DUPLICATE == <<"D", "U", "P", "L", "I", "C", "A", "T", "E">>

\* What the judge model can answer
Answers ==
  {DUPLICATE,
   <<"d", "u", "p", "l", "i", "c", "a", "t", "e", "\n">>,
   <<"n", "o", "t", " ", "a", " ", "d", "u", "p", "l", "i", "c", "a", "t",
     "e">>,
   <<"D", "I", "S", "T", "I", "N", "C", "T">>,
   <<" ", "D", "i", "s", "t", "i", "n", "c", "t">>,
   << >>}

\* A JSON body without the response field
Undefined == <<"undefined">>

LowerLetters == <<"a", "c", "d", "e", "i", "l", "n", "o", "p", "s", "t", "u">>
UpperLetters == <<"A", "C", "D", "E", "I", "L", "N", "O", "P", "S", "T", "U">>

\* String.prototype.toUpperCase
ToUpperCase(s) ==
  [i \in 1..Len(s) |->
     IF \E k \in 1..Len(LowerLetters) : LowerLetters[k] = s[i]
       THEN UpperLetters[CHOOSE k \in 1..Len(LowerLetters) :
                           LowerLetters[k] = s[i]]
       ELSE s[i]]

Whitespace == {" ", "\n"}

RECURSIVE TrimStart(_)
TrimStart(s) ==
  IF s # << >> /\ Head(s) \in Whitespace THEN TrimStart(Tail(s)) ELSE s

RECURSIVE TrimEnd(_)
TrimEnd(s) ==
  IF s # << >> /\ s[Len(s)] \in Whitespace
    THEN TrimEnd(SubSeq(s, 1, Len(s) - 1))
  ELSE s

\* String.prototype.trim
Trim(s) == TrimEnd(TrimStart(s))

\* String.prototype.includes
Includes(s, sub) ==
  \E i \in 0..(Len(s) - Len(sub)) : SubSeq(s, i + 1, i + Len(sub)) = sub

\* How one call of llmJudgeDuplicate can go: the configured provider and
\* what happens on the way -- the gateway key is missing, the model call
\* (generateText, fetch) throws, the response is not OK, an answer comes
\* back (for ollama possibly a body without the response field), or
\* loadConfig / config.judge throws before any try block is entered
JudgeScenarios ==
  {[provider |-> "gateway", how |-> "noKey", text |-> << >>],
   [provider |-> "gateway", how |-> "throws", text |-> << >>],
   [provider |-> "ollama", how |-> "throws", text |-> << >>],
   [provider |-> "ollama", how |-> "notOk", text |-> << >>],
   [provider |-> "ollama", how |-> "answer", text |-> Undefined],
   [provider |-> "none", how |-> "configThrows", text |-> << >>]} \cup
  {[provider |-> p, how |-> "answer", text |-> t] :
     p \in {"gateway", "ollama"}, t \in Answers}

\* The promise of llmJudgeDuplicate rejects: the throw is outside its try
\* blocks
JudgeRejects(sc) == sc.how = "configThrows"

\* result.text resp. (data.response || "")
AnswerText(sc) == IF sc.text = Undefined THEN << >> ELSE sc.text

\* Variant: the answer is searched without toUpperCase
llmJudgeDuplicateCaseSensitive(sc) ==
  IF sc.how = "answer"
    THEN [isDuplicate |-> Includes(Trim(AnswerText(sc)), DUPLICATE),
          available |-> TRUE]
  ELSE [isDuplicate |-> FALSE, available |-> FALSE]

\* The value the promise of llmJudgeDuplicate resolves with
llmJudgeDuplicate(sc) ==
  IF sc.how = "answer"
    THEN [isDuplicate |->
            Includes(ToUpperCase(Trim(AnswerText(sc))), DUPLICATE),
          available |-> TRUE]
  ELSE [isDuplicate |-> FALSE, available |-> FALSE]

\* --------------------------------------------------------- taxonomy store
\* The embedding of a text is kept as a point; the cosine similarity of two
\* embeddings, in percent, falls with the distance of their points.
Similarity(p, q) == 100 - 20 * (IF p > q THEN p - q ELSE q - p)

\* taxonomy.findSimilarConcepts(embedding, threshold): the concepts with a
\* stored embedding at least that similar
FindSimilar(embedding, threshold) ==
  {e \in ddEmbeddings :
     e.id \in ddConcepts /\ Similarity(e.point, embedding) >= threshold}

\* The best-scoring entries of a candidate set: similar[0] is one of them
Best(similar, embedding) ==
  {e \in similar :
     \A f \in similar :
       Similarity(f.point, embedding) <= Similarity(e.point, embedding)}

\* ---------------------------------------------------- autoAcceptProposals
MaxProposals == 2

\* findSimilarConcepts(embedding, 0.75), in percent
DedupThreshold == 75

\* The proposals the extraction can hand over: a and b are close to one
\* another (80%), c is far from both
ProposedConcepts ==
  {[id |-> "a", point |-> 0], [id |-> "b", point |-> 1],
   [id |-> "c", point |-> 4]}

\* The store before the run: empty, or holding the concept e with an
\* embedding equal to that of a
InitialStores == {{}, {[id |-> "e", point |-> 0]}}

RECURSIVE SeqsOf(_, _)
SeqsOf(S, n) ==
  IF n = 0 THEN {<< >>}
  ELSE {Append(s, x) : s \in SeqsOf(S, n - 1), x \in S}

Proposal == ddProposals[ddIdx]

\* Store and counters, as a record
Snapshot ==
  [concepts |-> ddConcepts, embeddings |-> ddEmbeddings,
   accepted |-> ddAccepted, rejected |-> ddRejected,
   judged |-> Len(ddJudged), calls |-> Len(ddCalls)]

EnrichmentError(cause) == [kind |-> "EnrichmentError", cause |-> cause]

InitDedup ==
  /\ NotDedupIdle
  /\ ddPc = "loop"
  /\ \E n \in 0..MaxProposals : ddProposals \in SeqsOf(ProposedConcepts, n)
  /\ ddIdx = 1
  /\ ddEmbedding = NoReturn
  /\ ddCandidate = "none"
  /\ ddEmbeddings \in InitialStores
  /\ ddConcepts = {e.id : e \in ddEmbeddings}
  /\ ddAccepted = 0
  /\ ddRejected = 0
  /\ ddBefore = NoReturn
  /\ ddJudged = << >>
  /\ ddCalls = << >>
  /\ ddDecisions = << >>
  /\ ddError = NoError
  /\ ddReturned = NoReturn

\* Variant: the rejections are left out of the counts returned
NextProposalDropsRejected ==
  /\ ddPc = "loop"
  /\ IF ddIdx <= Len(ddProposals)
       THEN /\ ddPc' = "embed"
            /\ ddBefore' = Snapshot
            /\ UNCHANGED ddReturned
       ELSE /\ ddPc' = "done"
            /\ ddReturned' = [returned |-> TRUE, accepted |-> ddAccepted,
                              rejected |-> 0]
            /\ UNCHANGED ddBefore
  /\ UNCHANGED <<notDedupVars, ddProposals, ddIdx, ddEmbedding, ddCandidate,
                 ddConcepts, ddEmbeddings, ddAccepted, ddRejected, ddJudged,
                 ddCalls, ddDecisions, ddError>>

\* for (const proposal of proposals) ... return { accepted, rejected }
NextProposal ==
  /\ ddPc = "loop"
  /\ IF ddIdx <= Len(ddProposals)
       THEN /\ ddPc' = "embed"
            /\ ddBefore' = Snapshot
            /\ UNCHANGED ddReturned
       ELSE /\ ddPc' = "done"
            /\ ddReturned' = [returned |-> TRUE, accepted |-> ddAccepted,
                              rejected |-> ddRejected]
            /\ UNCHANGED ddBefore
  /\ UNCHANGED <<notDedupVars, ddProposals, ddIdx, ddEmbedding, ddCandidate,
                 ddConcepts, ddEmbeddings, ddAccepted, ddRejected, ddJudged,
                 ddCalls, ddDecisions, ddError>>

\* A yield* fails: the generator ends and mapError wraps the failure
RunFails(cause) ==
  /\ ddPc' = "failed"
  /\ ddError' = EnrichmentError(cause)
  /\ UNCHANGED <<notDedupVars, ddProposals, ddIdx, ddEmbedding, ddCandidate,
                 ddConcepts, ddEmbeddings, ddAccepted, ddRejected, ddBefore,
                 ddJudged, ddDecisions, ddReturned>>

\* const embedding = yield* ollama.embed(proposalText)
EmbedProposal ==
  /\ ddPc = "embed"
  /\ ddEmbedding' = [returned |-> TRUE, value |-> Proposal.point]
  /\ ddPc' = "retrieve"
  /\ UNCHANGED <<notDedupVars, ddProposals, ddIdx, ddCandidate, ddConcepts,
                 ddEmbeddings, ddAccepted, ddRejected, ddBefore, ddJudged,
                 ddCalls, ddDecisions, ddError, ddReturned>>

EmbedProposalFails ==
  /\ ddPc = "embed"
  /\ RunFails("OllamaError")
  /\ UNCHANGED ddCalls

\* Variant: any of the candidates is handed to the judge
AnyOf(similar, embedding) == {e.id : e \in similar}

\* similar[0]: the id of the first, best-scoring candidate
FirstOf(similar, embedding) == {e.id : e \in Best(similar, embedding)}

\* Variant: the judge is consulted for every proposal
NeedsJudgeAlways(similar) == TRUE

\* if (similar.length > 0)
NeedsJudge(similar) == similar # {}

\* const similar = yield* taxonomy.findSimilarConcepts(embedding, 0.75)
Retrieve(top) ==
  /\ ddPc = "retrieve"
  /\ LET similar == FindSimilar(ddEmbedding.value, DedupThreshold)
     IN /\ top \in IF similar = {} THEN {"none"}
                   ELSE FirstOf(similar, ddEmbedding.value)
        /\ ddCandidate' = top
        /\ ddPc' = IF NeedsJudge(similar) THEN "judge" ELSE "add"
  /\ UNCHANGED <<notDedupVars, ddProposals, ddIdx, ddEmbedding, ddConcepts,
                 ddEmbeddings, ddAccepted, ddRejected, ddBefore, ddJudged,
                 ddCalls, ddDecisions, ddError, ddReturned>>

RetrieveFails ==
  /\ ddPc = "retrieve"
  /\ RunFails("TaxonomyError")
  /\ UNCHANGED ddCalls

\* The record of a proposal whose processing ended
Decision(decision, judge, after) ==
  [idx |-> ddIdx, id |-> Proposal.id, candidate |-> ddCandidate,
   judge |-> judge, decision |-> decision, before |-> ddBefore,
   after |-> after]

\* The judge call of the current proposal, "notConsulted" when none was made
JudgeOfProposal ==
  IF ddBefore.judged < Len(ddJudged)
    THEN (IF ddJudged[Len(ddJudged)].result.available
            THEN "available" ELSE "unavailable")
  ELSE "notConsulted"

\* Effect.tryPromise({ try: () => llmJudgeDuplicate(proposal, similar[0]) })
\* resolves; if (judgeResult.isDuplicate) { rejected++; continue }
JudgeResolves(sc) ==
  /\ ddPc = "judge"
  /\ ~JudgeRejects(sc)
  /\ ddJudged' = Append(ddJudged, [idx |-> ddIdx, candidate |-> ddCandidate,
                                   scenario |-> sc,
                                   result |-> llmJudgeDuplicate(sc)])
  /\ IF llmJudgeDuplicate(sc).isDuplicate
       THEN /\ ddRejected' = ddRejected + 1
            /\ ddDecisions' =
                 Append(ddDecisions,
                        Decision("REJECT", "available",
                                 [Snapshot EXCEPT !.rejected = @ + 1,
                                                  !.judged = @ + 1]))
            /\ ddIdx' = ddIdx + 1
            /\ ddEmbedding' = NoReturn
            /\ ddCandidate' = "none"
            /\ ddPc' = "loop"
       ELSE /\ ddPc' = "add"
            /\ UNCHANGED <<ddRejected, ddDecisions, ddIdx, ddEmbedding,
                           ddCandidate>>
  /\ UNCHANGED <<notDedupVars, ddProposals, ddConcepts, ddEmbeddings,
                 ddAccepted, ddBefore, ddCalls, ddError, ddReturned>>

\* The promise rejects: tryPromise turns the value of `catch` into the
\* failure of the effect, and yield* ends the generator with it
JudgeThrows(sc) ==
  /\ ddPc = "judge"
  /\ JudgeRejects(sc)
  /\ ddPc' = "failed"
  /\ ddError' = EnrichmentError("[object Object]")
  /\ ddJudged' = Append(ddJudged, [idx |-> ddIdx, candidate |-> ddCandidate,
                                   scenario |-> sc,
                                   result |-> [isDuplicate |-> FALSE,
                                               available |-> FALSE]])
  /\ UNCHANGED <<notDedupVars, ddProposals, ddIdx, ddEmbedding, ddCandidate,
                 ddConcepts, ddEmbeddings, ddAccepted, ddRejected, ddBefore,
                 ddCalls, ddDecisions, ddReturned>>

\* yield* taxonomy.addConcept({ id: proposal.id, ... })
AddConcept ==
  /\ ddPc = "add"
  /\ ddCalls' = Append(ddCalls, [op |-> "addConcept", idx |-> ddIdx,
                                 id |-> Proposal.id])
  /\ ddConcepts' = ddConcepts \cup {Proposal.id}
  /\ ddPc' = "store"
  /\ UNCHANGED <<notDedupVars, ddProposals, ddIdx, ddEmbedding, ddCandidate,
                 ddEmbeddings, ddAccepted, ddRejected, ddBefore, ddJudged,
                 ddDecisions, ddError, ddReturned>>

AddConceptFails ==
  /\ ddPc = "add"
  /\ ddCalls' = Append(ddCalls, [op |-> "addConcept", idx |-> ddIdx,
                                 id |-> Proposal.id])
  /\ RunFails("TaxonomyError")

\* Variant: the call returns without the embedding being kept
StoreConceptEmbeddingNotKept ==
  /\ ddPc = "store"
  /\ ddCalls' = Append(ddCalls, [op |-> "storeConceptEmbedding",
                                 idx |-> ddIdx, id |-> Proposal.id])
  /\ ddEmbeddings' = ddEmbeddings
  /\ ddAccepted' = ddAccepted + 1
  /\ ddDecisions' =
       Append(ddDecisions,
              Decision("ACCEPT", JudgeOfProposal,
                       [Snapshot EXCEPT !.embeddings = ddEmbeddings',
                                        !.accepted = @ + 1,
                                        !.calls = @ + 1]))
  /\ ddIdx' = ddIdx + 1
  /\ ddEmbedding' = NoReturn
  /\ ddCandidate' = "none"
  /\ ddPc' = "loop"
  /\ UNCHANGED <<notDedupVars, ddProposals, ddConcepts, ddRejected,
                 ddBefore, ddJudged, ddError, ddReturned>>

\* yield* taxonomy.storeConceptEmbedding(proposal.id, embedding); accepted++
StoreConceptEmbedding ==
  /\ ddPc = "store"
  /\ ddCalls' = Append(ddCalls, [op |-> "storeConceptEmbedding",
                                 idx |-> ddIdx, id |-> Proposal.id])
  /\ ddEmbeddings' =
       {e \in ddEmbeddings : e.id # Proposal.id} \cup
       {[id |-> Proposal.id, point |-> ddEmbedding.value]}
  /\ ddAccepted' = ddAccepted + 1
  /\ ddDecisions' =
       Append(ddDecisions,
              Decision("ACCEPT", JudgeOfProposal,
                       [Snapshot EXCEPT !.embeddings = ddEmbeddings',
                                        !.accepted = @ + 1,
                                        !.calls = @ + 1]))
  /\ ddIdx' = ddIdx + 1
  /\ ddEmbedding' = NoReturn
  /\ ddCandidate' = "none"
  /\ ddPc' = "loop"
  /\ UNCHANGED <<notDedupVars, ddProposals, ddConcepts, ddRejected,
                 ddBefore, ddJudged, ddError, ddReturned>>

StoreConceptEmbeddingFails ==
  /\ ddPc = "store"
  /\ ddCalls' = Append(ddCalls, [op |-> "storeConceptEmbedding",
                                 idx |-> ddIdx, id |-> Proposal.id])
  /\ RunFails("TaxonomyError")

NextDedup ==
  \/ NextProposal
  \/ EmbedProposal
  \/ EmbedProposalFails
  \/ \E top \in {"none"} \cup {e.id : e \in ddEmbeddings} : Retrieve(top)
  \/ RetrieveFails
  \/ \E sc \in JudgeScenarios : JudgeResolves(sc)
  \/ \E sc \in JudgeScenarios : JudgeThrows(sc)
  \/ AddConcept
  \/ AddConceptFails
  \/ StoreConceptEmbedding
  \/ StoreConceptEmbeddingFails

SpecDedup == InitDedup /\ [][NextDedup]_vars

\* ------------------------------------------- successive deduplication runs
\* autoAcceptProposals called again on the same taxonomy store once the
\* previous run has ended.  ddProposals, ddJudged, ddCalls and ddDecisions
\* go on as the history of all runs (ddProposals is the concatenation of the
\* arguments, ddIdx the position in it); the counters are those of the
\* current run.
MaxTotalProposals == 3

\* autoAcceptProposals(proposals) after the previous run ended
StartRun(proposals) ==
  /\ ddPc \in {"done", "failed"}
  /\ Len(ddProposals) + Len(proposals) <= MaxTotalProposals
  /\ ddPc' = "loop"
  /\ ddProposals' = ddProposals \o proposals
  /\ ddIdx' = Len(ddProposals) + 1
  /\ ddEmbedding' = NoReturn
  /\ ddCandidate' = "none"
  /\ ddAccepted' = 0
  /\ ddRejected' = 0
  /\ ddBefore' = NoReturn
  /\ ddError' = NoError
  /\ ddReturned' = NoReturn
  /\ UNCHANGED <<notDedupVars, ddConcepts, ddEmbeddings, ddJudged, ddCalls,
                 ddDecisions>>

\* The proposals submitted to the runs: a, whose embedding equals that of
\* the concept e of the initial store, and b, which is close to both
ResubmittedConcepts == {c \in ProposedConcepts : c.id \in {"a", "b"}}

InitDedupRuns ==
  /\ InitDedup
  /\ Len(ddProposals) <= MaxTotalProposals
  /\ \A i \in 1..Len(ddProposals) : ddProposals[i] \in ResubmittedConcepts

\* A working judge: the model is reached and answers with exactly one of
\* the two words
WorkingJudgeScenarios ==
  {sc \in JudgeScenarios :
     sc.how = "answer" /\
     sc.text \in {DUPLICATE, <<"D", "I", "S", "T", "I", "N", "C", "T">>}}

\* autoAcceptProposals with a working judge, run after run
NextDedupRuns ==
  \/ NextProposal
  \/ EmbedProposal
  \/ EmbedProposalFails
  \/ \E top \in {"none"} \cup {e.id : e \in ddEmbeddings} : Retrieve(top)
  \/ RetrieveFails
  \/ \E sc \in WorkingJudgeScenarios : JudgeResolves(sc)
  \/ AddConcept
  \/ AddConceptFails
  \/ StoreConceptEmbedding
  \/ StoreConceptEmbeddingFails
  \/ \E n \in 0..MaxProposals :
       \E proposals \in SeqsOf(ResubmittedConcepts, n) : StartRun(proposals)

SpecDedupRuns == InitDedupRuns /\ [][NextDedupRuns]_vars

\* ------------------------------------------------------------ the daemon
\* PGlite daemon service (part_000): startDaemon, stopDaemon,
\* isDaemonRunning and ensureDaemonRunning, called by several operating
\* system processes with one configuration.  The socket file and the PID
\* file are shared; activeDaemon, the PGlite instance and the socket server
\* belong to one process.  A process is interleaved with the others at
\* every file-system call and every await.

NoFile == [exists |-> FALSE, text |-> << >>]

Digits == <<"0", "1", "2", "3", "4", "5", "6", "7", "8", "9">>

IsDigit(c) == \E k \in 1..10 : Digits[k] = c

DigitValue(c) == (CHOOSE k \in 1..10 : Digits[k] = c) - 1

\* `${process.pid}` for a pid of one decimal digit
PidText(pid) == <<Digits[pid + 1]>>

NaN == [nan |-> TRUE, value |-> 0]

RECURSIVE ParseDigits(_, _)
ParseDigits(s, acc) ==
  IF s # << >> /\ IsDigit(Head(s))
    THEN ParseDigits(Tail(s), 10 * acc + DigitValue(Head(s)))
  ELSE acc

\* parseInt(s, 10) of a trimmed string: an optional minus sign and the
\* longest prefix of decimal digits, NaN when there is no digit
parseInt(s) ==
  IF s # << >> /\ IsDigit(Head(s))
    THEN [nan |-> FALSE, value |-> ParseDigits(s, 0)]
  ELSE IF Len(s) >= 2 /\ Head(s) = "-" /\ IsDigit(s[2])
    THEN [nan |-> FALSE, value |-> 0 - ParseDigits(Tail(s), 0)]
  ELSE NaN

\* process.kill(pid, 0) does not throw: a process with that pid exists
ProcessExists(pid) == pid \in Procs

\* What the PID file holds before the first call: nothing, text that is no
\* number, 0, the pid of a process that is gone, the pid of a live process
InitialPidFiles ==
  {NoFile} \cup
  {[exists |-> TRUE, text |-> t] :
     t \in {<<"x">>, <<"0">>, <<"7", "\n">>, <<"1">>}}

NoOutcome == [kind |-> "none"]
Returned(v) == [kind |-> "returned", value |-> v]
Thrown(m) == [kind |-> "thrown", message |-> m]

\* { success: true, mode: "daemon" }
DaemonMode == [success |-> TRUE, mode |-> "daemon"]

\* { success: false, mode: "fallback", error }
FallbackMode(msg) == [success |-> FALSE, mode |-> "fallback", error |-> msg]

InitDaemon ==
  /\ NotDaemonIdle
  /\ dmSocket \in BOOLEAN
  /\ dmPidFile \in InitialPidFiles
  /\ dmPc = [p \in Procs |-> "idle"]
  /\ dmCall = [p \in Procs |-> "none"]
  /\ dmIn = [p \in Procs |-> "none"]
  /\ dmRead = [p \in Procs |-> NaN]
  /\ dmDb = [p \in Procs |-> FALSE]
  /\ dmServer = [p \in Procs |-> FALSE]
  /\ dmActive = [p \in Procs |-> FALSE]
  /\ dmOutcome = [p \in Procs |-> NoOutcome]
  /\ dmShutdown = [p \in Procs |-> "none"]
  /\ dmCalls = 0

\* Process p calls ensureDaemonRunning(config)
CallEnsureDaemonRunning(p) ==
  /\ dmPc[p] = "idle" /\ dmCalls < MaxDaemonCalls
  /\ dmCalls' = dmCalls + 1
  /\ dmCall' = [dmCall EXCEPT ![p] = "ensureDaemonRunning"]
  /\ dmIn' = [dmIn EXCEPT ![p] = "ensureDaemonRunning"]
  /\ dmPc' = [dmPc EXCEPT ![p] = "socket"]
  /\ dmOutcome' = [dmOutcome EXCEPT ![p] = NoOutcome]
  /\ UNCHANGED <<notDaemonVars, dmShutdown,
                 dmSocket, dmPidFile, dmRead, dmDb, dmServer,
                 dmActive>>

\* Process p calls startDaemon(config)
CallStartDaemon(p) ==
  /\ dmPc[p] = "idle" /\ dmCalls < MaxDaemonCalls
  /\ dmCalls' = dmCalls + 1
  /\ dmCall' = [dmCall EXCEPT ![p] = "startDaemon"]
  /\ dmIn' = [dmIn EXCEPT ![p] = "startDaemon"]
  /\ dmPc' = [dmPc EXCEPT ![p] = "socket"]
  /\ dmOutcome' = [dmOutcome EXCEPT ![p] = NoOutcome]
  /\ UNCHANGED <<notDaemonVars, dmShutdown,
                 dmSocket, dmPidFile, dmRead, dmDb, dmServer,
                 dmActive>>

\* startDaemon of process p throws: ensureDaemonRunning catches it and
\* returns the fallback result, a direct caller gets the exception
StartDaemonThrows(p, msg) ==
  /\ dmPc' = [dmPc EXCEPT ![p] = "idle"]
  /\ dmOutcome' = [dmOutcome EXCEPT ![p] =
       IF dmCall[p] = "ensureDaemonRunning"
         THEN Returned(FallbackMode(msg)) ELSE Thrown(msg)]

\* startDaemon of process p returns
StartDaemonReturns(p) ==
  /\ dmPc' = [dmPc EXCEPT ![p] = "idle"]
  /\ dmOutcome' = [dmOutcome EXCEPT ![p] =
       IF dmCall[p] = "ensureDaemonRunning"
         THEN Returned(DaemonMode) ELSE Returned("void")]

\* isDaemonRunning of process p returns r to the function that called it
IsDaemonRunningReturns(p, r) ==
  IF dmIn[p] = "ensureDaemonRunning"
    THEN IF r
           THEN /\ dmPc' = [dmPc EXCEPT ![p] = "idle"]
                /\ dmOutcome' = [dmOutcome EXCEPT ![p] = Returned(DaemonMode)]
                /\ UNCHANGED dmIn
         ELSE /\ dmPc' = [dmPc EXCEPT ![p] = "socket"]
              /\ dmIn' = [dmIn EXCEPT ![p] = "startDaemon"]
              /\ UNCHANGED dmOutcome
  ELSE IF r
    THEN StartDaemonThrows(p, "Daemon already running") /\ UNCHANGED dmIn
  ELSE /\ dmPc' = [dmPc EXCEPT ![p] = "open"]
       /\ UNCHANGED <<dmIn, dmOutcome>>

\* isDaemonRunning of process p rejects: the call in ensureDaemonRunning
\* stands before the try block, the one in startDaemon makes startDaemon
\* reject
IsDaemonRunningThrows(p, msg) ==
  IF dmIn[p] = "ensureDaemonRunning"
    THEN /\ dmPc' = [dmPc EXCEPT ![p] = "idle"]
         /\ dmOutcome' = [dmOutcome EXCEPT ![p] = Thrown(msg)]
  ELSE StartDaemonThrows(p, msg)

\* if (!existsSync(socketFile)) return false
ExistsSocket(p) ==
  /\ dmPc[p] = "socket"
  /\ IF dmSocket
       THEN /\ dmPc' = [dmPc EXCEPT ![p] = "pidfile"]
            /\ UNCHANGED <<dmIn, dmOutcome>>
     ELSE IsDaemonRunningReturns(p, FALSE)
  /\ UNCHANGED <<notDaemonVars, dmShutdown,
                 dmSocket, dmPidFile, dmCall, dmRead, dmDb,
                 dmServer, dmActive, dmCalls>>

\* if (!existsSync(config.pidPath)) return false
ExistsPidFile(p) ==
  /\ dmPc[p] = "pidfile"
  /\ IF dmPidFile.exists
       THEN /\ dmPc' = [dmPc EXCEPT ![p] = "read"]
            /\ UNCHANGED <<dmIn, dmOutcome>>
     ELSE IsDaemonRunningReturns(p, FALSE)
  /\ UNCHANGED <<notDaemonVars, dmShutdown,
                 dmSocket, dmPidFile, dmCall, dmRead, dmDb,
                 dmServer, dmActive, dmCalls>>

\* const pid = parseInt((await Bun.file(config.pidPath).text()).trim(), 10)
\* and the test of pid
ReadPidFile(p) ==
  /\ dmPc[p] = "read"
  /\ dmPidFile.exists
  /\ LET pid == parseInt(Trim(dmPidFile.text)) IN
       /\ dmRead' = [dmRead EXCEPT ![p] = pid]
       /\ IF pid.nan \/ pid.value <= 0
            THEN IsDaemonRunningReturns(p, FALSE)
          ELSE /\ dmPc' = [dmPc EXCEPT ![p] = "kill"]
               /\ UNCHANGED <<dmIn, dmOutcome>>
  /\ UNCHANGED <<notDaemonVars, dmShutdown,
                 dmSocket, dmPidFile, dmCall, dmDb, dmServer,
                 dmActive, dmCalls>>

\* Bun.file(config.pidPath).text() rejects: the file was removed after the
\* existsSync test
ReadPidFileFails(p) ==
  /\ dmPc[p] = "read"
  /\ ~dmPidFile.exists
  /\ IsDaemonRunningThrows(p, "ENOENT")
  /\ UNCHANGED <<notDaemonVars, dmShutdown,
                 dmSocket, dmPidFile, dmCall, dmIn, dmRead,
                 dmDb, dmServer, dmActive, dmCalls>>

\* try { process.kill(pid, 0); return true } catch { return false }
KillZero(p) ==
  /\ dmPc[p] = "kill"
  /\ IsDaemonRunningReturns(p, ProcessExists(dmRead[p].value))
  /\ UNCHANGED <<notDaemonVars, dmShutdown,
                 dmSocket, dmPidFile, dmCall, dmRead, dmDb,
                 dmServer, dmActive, dmCalls>>

\* new PGlite(pgDataDir), await db.waitReady and the schema statements
OpenDb(p) ==
  /\ dmPc[p] = "open"
  /\ dmDb' = [dmDb EXCEPT ![p] = TRUE]
  /\ dmShutdown' = [dmShutdown EXCEPT ![p] = "none"]
  /\ dmPc' = [dmPc EXCEPT ![p] = "listen"]
  /\ UNCHANGED <<notDaemonVars, dmSocket, dmPidFile, dmCall, dmIn, dmRead,
                 dmServer, dmActive, dmOutcome, dmCalls>>

\* db.waitReady rejects
OpenDbFails(p) ==
  /\ dmPc[p] = "open"
  /\ StartDaemonThrows(p, "PGlite failed")
  /\ UNCHANGED <<notDaemonVars, dmShutdown,
                 dmSocket, dmPidFile, dmCall, dmIn, dmRead,
                 dmDb, dmServer, dmActive, dmCalls>>

\* await server.start(): the socket file exists from here on
ServerStart(p) ==
  /\ dmPc[p] = "listen"
  /\ dmServer' = [dmServer EXCEPT ![p] = TRUE]
  /\ dmSocket' = TRUE
  /\ dmPc' = [dmPc EXCEPT ![p] = "writepid"]
  /\ UNCHANGED <<notDaemonVars, dmShutdown,
                 dmPidFile, dmCall, dmIn, dmRead, dmDb,
                 dmActive, dmOutcome, dmCalls>>

\* server.start() rejects; db is not closed on this path
ServerStartFails(p) ==
  /\ dmPc[p] = "listen"
  /\ StartDaemonThrows(p, "listen failed")
  /\ UNCHANGED <<notDaemonVars, dmShutdown,
                 dmSocket, dmPidFile, dmCall, dmIn, dmRead,
                 dmDb, dmServer, dmActive, dmCalls>>

\* await Bun.write(config.pidPath, `${process.pid}`);
\* activeDaemon = { server, db, config } and the signal handlers
WritePidFile(p) ==
  /\ dmPc[p] = "writepid"
  /\ dmPidFile' = [exists |-> TRUE, text |-> PidText(p)]
  /\ dmActive' = [dmActive EXCEPT ![p] = TRUE]
  /\ StartDaemonReturns(p)
  /\ UNCHANGED <<notDaemonVars, dmShutdown, dmSocket, dmCall, dmIn, dmRead,
                 dmDb, dmServer, dmCalls>>

\* Process p calls stopDaemon(config)
CallStopDaemon(p) ==
  /\ dmPc[p] = "idle" /\ dmCalls < MaxDaemonCalls
  /\ dmCalls' = dmCalls + 1
  /\ dmCall' = [dmCall EXCEPT ![p] = "stopDaemon"]
  /\ dmIn' = [dmIn EXCEPT ![p] = "stopDaemon"]
  /\ dmPc' = [dmPc EXCEPT ![p] =
       IF dmActive[p] THEN "checkpoint" ELSE "staleSocket"]
  /\ dmOutcome' = [dmOutcome EXCEPT ![p] = NoOutcome]
  /\ UNCHANGED <<notDaemonVars, dmShutdown,
                 dmSocket, dmPidFile, dmRead, dmDb, dmServer,
                 dmActive>>

\* !activeDaemon: if (existsSync(socketFile)) rmSync(socketFile)
RemoveStaleSocket(p) ==
  /\ dmPc[p] = "staleSocket"
  /\ dmSocket' = FALSE
  /\ dmPc' = [dmPc EXCEPT ![p] = "stalePid"]
  /\ UNCHANGED <<notDaemonVars, dmShutdown,
                 dmPidFile, dmCall, dmIn, dmRead, dmDb,
                 dmServer, dmActive, dmOutcome, dmCalls>>

\* !activeDaemon: if (existsSync(config.pidPath)) rmSync(config.pidPath);
\* return
RemoveStalePidFile(p) ==
  /\ dmPc[p] = "stalePid"
  /\ dmPidFile' = NoFile
  /\ dmPc' = [dmPc EXCEPT ![p] = "idle"]
  /\ dmOutcome' = [dmOutcome EXCEPT ![p] = Returned("void")]
  /\ UNCHANGED <<notDaemonVars, dmShutdown,
                 dmSocket, dmCall, dmIn, dmRead, dmDb,
                 dmServer, dmActive, dmCalls>>

\* await activeDaemon.db.exec("CHECKPOINT")
Checkpoint(p) ==
  /\ dmPc[p] = "checkpoint"
  /\ dmShutdown' = [dmShutdown EXCEPT ![p] = "flushed"]
  /\ dmPc' = [dmPc EXCEPT ![p] = "stopServer"]
  /\ UNCHANGED <<notDaemonVars, dmSocket, dmPidFile, dmCall, dmIn, dmRead,
                 dmDb, dmServer, dmActive, dmOutcome, dmCalls>>

\* Variant: a failing CHECKPOINT ends stopDaemon
CheckpointFailsAndThrows(p) ==
  /\ dmPc[p] = "checkpoint"
  /\ dmShutdown' = [dmShutdown EXCEPT ![p] = "logged"]
  /\ dmPc' = [dmPc EXCEPT ![p] = "idle"]
  /\ dmOutcome' = [dmOutcome EXCEPT ![p] = Thrown("CHECKPOINT failed")]
  /\ UNCHANGED <<notDaemonVars, dmSocket, dmPidFile, dmCall, dmIn, dmRead,
                 dmDb, dmServer, dmActive, dmCalls>>

\* The CHECKPOINT rejects: catch (e) { console.error("CHECKPOINT failed
\* during shutdown:", e) } and the shutdown goes on
CheckpointFails(p) ==
  /\ dmPc[p] = "checkpoint"
  /\ dmShutdown' = [dmShutdown EXCEPT ![p] = "logged"]
  /\ dmPc' = [dmPc EXCEPT ![p] = "stopServer"]
  /\ UNCHANGED <<notDaemonVars, dmSocket, dmPidFile, dmCall, dmIn, dmRead,
                 dmDb, dmServer, dmActive, dmOutcome, dmCalls>>

\* await activeDaemon.server.stop()
StopServer(p) ==
  /\ dmPc[p] = "stopServer"
  /\ dmServer' = [dmServer EXCEPT ![p] = FALSE]
  /\ dmPc' = [dmPc EXCEPT ![p] = "closeDb"]
  /\ UNCHANGED <<notDaemonVars, dmShutdown,
                 dmSocket, dmPidFile, dmCall, dmIn, dmRead,
                 dmDb, dmActive, dmOutcome, dmCalls>>

\* server.stop() rejects: stopDaemon rejects with the daemon still active
StopServerFails(p) ==
  /\ dmPc[p] = "stopServer"
  /\ dmPc' = [dmPc EXCEPT ![p] = "idle"]
  /\ dmOutcome' = [dmOutcome EXCEPT ![p] = Thrown("server.stop failed")]
  /\ UNCHANGED <<notDaemonVars, dmShutdown, dmSocket, dmPidFile, dmCall,
                 dmIn, dmRead, dmDb, dmServer, dmActive, dmCalls>>

\* await activeDaemon.db.close()
CloseDb(p) ==
  /\ dmPc[p] = "closeDb"
  /\ dmDb' = [dmDb EXCEPT ![p] = FALSE]
  /\ dmPc' = [dmPc EXCEPT ![p] = "removePid"]
  /\ UNCHANGED <<notDaemonVars, dmShutdown,
                 dmSocket, dmPidFile, dmCall, dmIn, dmRead,
                 dmServer, dmActive, dmOutcome, dmCalls>>

\* db.close() rejects: stopDaemon rejects with the daemon still active
CloseDbFails(p) ==
  /\ dmPc[p] = "closeDb"
  /\ dmPc' = [dmPc EXCEPT ![p] = "idle"]
  /\ dmOutcome' = [dmOutcome EXCEPT ![p] = Thrown("db.close failed")]
  /\ UNCHANGED <<notDaemonVars, dmShutdown, dmSocket, dmPidFile, dmCall,
                 dmIn, dmRead, dmDb, dmServer, dmActive, dmCalls>>

\* if (existsSync(config.pidPath)) rmSync(config.pidPath)
RemovePidFile(p) ==
  /\ dmPc[p] = "removePid"
  /\ dmPidFile' = NoFile
  /\ dmPc' = [dmPc EXCEPT ![p] = "removeSocket"]
  /\ UNCHANGED <<notDaemonVars, dmShutdown,
                 dmSocket, dmCall, dmIn, dmRead, dmDb,
                 dmServer, dmActive, dmOutcome, dmCalls>>

\* if (existsSync(socketFile)) rmSync(socketFile); activeDaemon = null
RemoveSocket(p) ==
  /\ dmPc[p] = "removeSocket"
  /\ dmSocket' = FALSE
  /\ dmActive' = [dmActive EXCEPT ![p] = FALSE]
  /\ dmPc' = [dmPc EXCEPT ![p] = "idle"]
  /\ dmOutcome' = [dmOutcome EXCEPT ![p] = Returned("void")]
  /\ UNCHANGED <<notDaemonVars, dmShutdown,
                 dmPidFile, dmCall, dmIn, dmRead, dmDb,
                 dmServer, dmCalls>>

NextDaemon ==
  \E p \in Procs :
    \/ CallEnsureDaemonRunning(p)
    \/ CallStartDaemon(p)
    \/ CallStopDaemon(p)
    \/ ExistsSocket(p)
    \/ ExistsPidFile(p)
    \/ ReadPidFile(p)
    \/ ReadPidFileFails(p)
    \/ KillZero(p)
    \/ OpenDb(p)
    \/ OpenDbFails(p)
    \/ ServerStart(p)
    \/ ServerStartFails(p)
    \/ WritePidFile(p)
    \/ RemoveStaleSocket(p)
    \/ RemoveStalePidFile(p)
    \/ Checkpoint(p)
    \/ CheckpointFails(p)
    \/ StopServer(p)
    \/ StopServerFails(p)
    \/ CloseDb(p)
    \/ CloseDbFails(p)
    \/ RemovePidFile(p)
    \/ RemoveSocket(p)

SpecDaemon == InitDaemon /\ [][NextDaemon]_vars

\* ----------------------------------------------------------------- enrich
\* AutoTaggerLive.enrich (part_002), steps 2 and 3: the LLM's
\* proposedConcepts go through validateProposedConcepts inside enrichWithLLM
\* and the validated proposals are handed to autoAcceptProposals, whose
\* failure enrich catches.
\*
\* Concept ids are strings; Chars gives the characters of the ids modelled.
Chars ==
  ("design/ux" :> <<"d", "e", "s", "i", "g", "n", "/", "u", "x">>
   @@ "meta/a-b-c-d" :>
        <<"m", "e", "t", "a", "/", "a", "-", "b", "-", "c", "-",
        "d">>
   @@ "design/" :> <<"d", "e", "s", "i", "g", "n", "/">>
   @@ "new/concept" :>
        <<"n", "e", "w", "/", "c", "o", "n", "c", "e", "p", "t">>
   @@ "design/new" :> <<"d", "e", "s", "i", "g", "n", "/", "n", "e", "w">>
   @@ "design" :> <<"d", "e", "s", "i", "g", "n">>
   @@ "design/ux/ui" :>
        <<"d", "e", "s", "i", "g", "n", "/", "u", "x", "/", "u",
        "i">>
   @@ "design/u x" :> <<"d", "e", "s", "i", "g", "n", "/", "u", " ", "x">>
   @@ "design/UX" :> <<"d", "e", "s", "i", "g", "n", "/", "U", "X">>
   @@ "meta/a-b-c-d-e" :>
        <<"m", "e", "t", "a", "/", "a", "-", "b", "-", "c", "-",
        "d", "-", "e">>
   @@ "meta/xxxxxxxxxxxxxxxxxxxxxxxxxxxxxxx" :>
        <<"m", "e", "t", "a", "/", "x", "x", "x", "x", "x", "x",
        "x", "x", "x", "x", "x", "x", "x", "x", "x", "x", "x", "x",
        "x", "x", "x", "x", "x", "x", "x", "x", "x", "x", "x", "x",
        "x">>
   @@ "" :> << >>)

LowerAlphabet == <<"a", "b", "c", "d", "e", "f", "g", "h", "i", "j", "k",
                   "l", "m", "n", "o", "p", "q", "r", "s", "t", "u", "v",
                   "w", "x", "y", "z">>
UpperAlphabet == <<"A", "B", "C", "D", "E", "F", "G", "H", "I", "J", "K",
                   "L", "M", "N", "O", "P", "Q", "R", "S", "T", "U", "V",
                   "W", "X", "Y", "Z">>

\* String.prototype.toLowerCase
ToLowerCase(s) ==
  [i \in 1..Len(s) |->
     IF \E k \in 1..26 : UpperAlphabet[k] = s[i]
       THEN LowerAlphabet[CHOOSE k \in 1..26 : UpperAlphabet[k] = s[i]]
       ELSE s[i]]

\* String.prototype.split(sep) for a separator of one character: acc holds
\* the pieces completed so far, cur the piece being read
RECURSIVE SplitAcc(_, _, _, _)
SplitAcc(s, sep, acc, cur) ==
  IF s = << >> THEN Append(acc, cur)
  ELSE IF Head(s) = sep THEN SplitAcc(Tail(s), sep, Append(acc, cur), << >>)
  ELSE SplitAcc(Tail(s), sep, acc, Append(cur, Head(s)))

Split(s, sep) == SplitAcc(s, sep, << >>, << >>)

\* s.split(/\s+/).length: one more than the number of whitespace runs
RECURSIVE WhitespaceRuns(_, _)
WhitespaceRuns(s, inRun) ==
  IF s = << >> THEN 0
  ELSE IF Head(s) \in Whitespace
    THEN (IF inRun THEN 0 ELSE 1) + WhitespaceRuns(Tail(s), TRUE)
  ELSE WhitespaceRuns(Tail(s), FALSE)

SplitWhitespaceLength(s) == 1 + WhitespaceRuns(s, FALSE)

validParents ==
  {<<"p", "r", "o", "g", "r", "a", "m", "m", "i", "n", "g">>,
   <<"e", "d", "u", "c", "a", "t", "i", "o", "n">>,
   <<"d", "e", "s", "i", "g", "n">>,
   <<"b", "u", "s", "i", "n", "e", "s", "s">>,
   <<"m", "e", "t", "a">>,
   <<"p", "s", "y", "c", "h", "o", "l", "o", "g", "y">>,
   <<"r", "e", "s", "e", "a", "r", "c", "h">>,
   <<"w", "r", "i", "t", "i", "n", "g">>}

\* Variant: the placeholder names are not refused
isValidConceptIdNoPlaceholder(id) ==
  LET s == Chars[id]
      parts == Split(s, "/")
  IN IF ~Includes(s, <<"/">>) \/ Len(parts) # 2 THEN FALSE
     ELSE LET parent == parts[1]
              child == parts[2]
          IN IF parent \notin validParents THEN FALSE
             ELSE IF Includes(child, <<" ">>) THEN FALSE
             ELSE IF Len(child) > 30 THEN FALSE
             ELSE IF s # ToLowerCase(s) THEN FALSE
             ELSE IF Len(Split(child, "-")) > 4 THEN FALSE
             ELSE TRUE

\* isValidConceptId(id)
isValidConceptId(id) ==
  LET s == Chars[id]
      parts == Split(s, "/")
  IN IF ~Includes(s, <<"/">>) \/ Len(parts) # 2 THEN FALSE
     ELSE LET parent == parts[1]
              child == parts[2]
          IN IF parent \notin validParents THEN FALSE
             ELSE IF Includes(child, <<" ">>) THEN FALSE
             ELSE IF Len(child) > 30 THEN FALSE
             ELSE IF child = <<"c", "o", "n", "c", "e", "p", "t">> \/
                     child = <<"n", "e", "w">> THEN FALSE
             ELSE IF s # ToLowerCase(s) THEN FALSE
             ELSE IF Len(Split(child, "-")) > 4 THEN FALSE
             ELSE TRUE

\* The callback of concepts.filter in validateProposedConcepts
KeepsConcept(c) ==
  IF c.id = "" \/ c.prefLabel = << >> THEN FALSE
  ELSE IF ~isValidConceptId(c.id) THEN FALSE
  ELSE IF SplitWhitespaceLength(Trim(c.prefLabel)) > 5 THEN FALSE
  ELSE TRUE

\* Array.prototype.filter with that callback
RECURSIVE FilterConcepts(_, _)
FilterConcepts(concepts, acc) ==
  IF concepts = << >> THEN acc
  ELSE FilterConcepts(Tail(concepts),
                      IF KeepsConcept(Head(concepts))
                        THEN Append(acc, Head(concepts)) ELSE acc)

\* The LLM output without the proposedConcepts field
NoConcepts == [defined |-> FALSE, list |-> << >>]

\* validateProposedConcepts(concepts)
validateProposedConcepts(concepts) ==
  IF ~concepts.defined THEN << >>
  ELSE FilterConcepts(concepts.list, << >>)

\* The proposals the LLM may return: [id, prefLabel, point], point being
\* the embedding of the proposal's prefLabel and definition
Label(id, prefLabel, point) ==
  [id |-> id, prefLabel |-> prefLabel, point |-> point]

RawConcepts ==
  {Label("design/ux", <<"U", "X">>, 0),
   Label("meta/a-b-c-d",
         <<" ", "a", " ", " ", "b", " ", "c", "\n", "d", " ", "e", " ">>, 1),
   Label("design/", <<"D">>, 4),
   Label("design/ux", << >>, 0),
   Label("design/ux",
         <<"a", " ", "b", " ", "c", " ", "d", " ", "e", " ", "f">>, 0),
   Label("new/concept", <<"N">>, 0),
   Label("design/new", <<"N">>, 4),
   Label("design", <<"D">>, 4),
   Label("design/ux/ui", <<"U">>, 0),
   Label("design/u x", <<"U">>, 0),
   Label("design/UX", <<"U">>, 0),
   Label("meta/a-b-c-d-e", <<"A">>, 1),
   Label("meta/xxxxxxxxxxxxxxxxxxxxxxxxxxxxxxx", <<"X">>, 4),
   Label("", <<"E">>, 4)}

\* The state outside enrich and autoAcceptProposals
notEnrichDedupVars == <<batchVars, adaptVars, embedVars, migrationVars,
                        healthVars, daemonVars>>

NotEnrichDedupIdle ==
  BatchIdle /\ AdaptIdle /\ EmbedIdle /\ MigrationIdle /\ HealthIdle /\
  DaemonIdle

InitEnrich ==
  /\ NotEnrichDedupIdle
  /\ enPc = "llm"
  /\ \/ enRaw = NoConcepts
     \/ \E n \in 0..MaxProposals :
          \E list \in SeqsOf(RawConcepts, n) :
            enRaw = [defined |-> TRUE, list |-> list]
  /\ enCounts = NoReturn
  /\ ddPc = "idle"
  /\ ddProposals = << >>
  /\ ddIdx = 0
  /\ ddEmbedding = NoReturn
  /\ ddCandidate = "none"
  /\ ddEmbeddings \in InitialStores
  /\ ddConcepts = {e.id : e \in ddEmbeddings}
  /\ ddAccepted = 0
  /\ ddRejected = 0
  /\ ddBefore = NoReturn
  /\ ddJudged = << >>
  /\ ddCalls = << >>
  /\ ddDecisions = << >>
  /\ ddError = NoError
  /\ ddReturned = NoReturn

\* STEP 2: enrichWithLLM returns its result, proposedConcepts being
\* validateProposedConcepts of the LLM's list; STEP 3 calls
\* autoAcceptProposals when the validated list is not empty
EnrichWithLLM ==
  /\ enPc = "llm"
  /\ LET validatedProposals == validateProposedConcepts(enRaw) IN
       IF Len(validatedProposals) > 0
         THEN /\ enPc' = "autoAccept"
              /\ ddPc' = "loop"
              /\ ddProposals' = validatedProposals
              /\ ddIdx' = 1
         ELSE /\ enPc' = "done"
              /\ UNCHANGED <<ddPc, ddProposals, ddIdx>>
  /\ UNCHANGED <<notEnrichDedupVars, enRaw, enCounts, ddEmbedding,
                 ddCandidate, ddConcepts, ddEmbeddings, ddAccepted,
                 ddRejected, ddBefore, ddJudged, ddCalls, ddDecisions,
                 ddError, ddReturned>>

\* STEP 2: enrichWithLLM rejects and enrich falls back to the heuristic
\* result, which has no proposedConcepts
EnrichWithLLMFails ==
  /\ enPc = "llm"
  /\ enPc' = "done"
  /\ UNCHANGED <<notEnrichVars, enRaw, enCounts>>

\* STEP 3: autoAcceptProposals has succeeded with its counts
AutoAcceptReturns ==
  /\ enPc = "autoAccept" /\ ddPc = "done"
  /\ enCounts' = ddReturned
  /\ enPc' = "done"
  /\ UNCHANGED <<notEnrichVars, enRaw>>

\* STEP 3: autoAcceptProposals has failed; Effect.catchAll logs the error
\* and continues with { accepted: 0, rejected: 0 }
AutoAcceptCaught ==
  /\ enPc = "autoAccept" /\ ddPc = "failed"
  /\ enCounts' = [returned |-> TRUE, accepted |-> 0, rejected |-> 0]
  /\ enPc' = "done"
  /\ UNCHANGED <<notEnrichVars, enRaw>>

NextEnrich ==
  \/ EnrichWithLLM
  \/ EnrichWithLLMFails
  \/ AutoAcceptReturns
  \/ AutoAcceptCaught
  \/ NextDedup

SpecEnrich == InitEnrich /\ [][NextEnrich]_vars

\* ================================================================ claims
IsBatchRun == api = "processInBatches"

\* Number of items of the k-th slice taken
BatchSizeOf(k) == batchLog[k].end - batchLog[k].start

\* C1: a successful run over N > 0 items with batch size B has taken
\* exactly ceil(N/B) slices of consecutive items, every slice but the last
\* of B items, the last of N mod B items (B when N mod B = 0), and has
\* processed all N items.
C1_BatchPartition ==
  (IsBatchRun /\ pc = "done" /\ Len(items) > 0) =>
    LET N == Len(items)
        B == config.batchSize
        k == Len(batchLog)
    IN /\ (k - 1) * B < N /\ N <= k * B
       /\ batchLog[1].start = 0
       /\ \A j \in 1..(k - 1) :
            BatchSizeOf(j) = B /\ batchLog[j + 1].start = batchLog[j].end
       /\ BatchSizeOf(k) = IF N % B = 0 THEN B ELSE N % B
       /\ batchLog[k].end = N
       /\ started = 1..N
       /\ Len(results) = N

C1_Witness ==
  /\ IsBatchRun /\ pc = "done"
  /\ Len(items) = 5 /\ config.batchSize = 2
  /\ batchLog = << [start |-> 0, end |-> 2], [start |-> 2, end |-> 4],
                   [start |-> 4, end |-> 5] >>

\* C2: a run in which every item succeeded returns one result per input
\* item, result i being the result of processing item i, whatever the order
\* in which the calls completed.
C2_ResultsInInputOrder ==
  (IsBatchRun /\ pc = "done") =>
    /\ returned.returned
    /\ Len(returned.value) = Len(items)
    /\ \A i \in 1..Len(items) : returned.value[i] = Process(items[i])

\* a batch whose calls completed out of input order
C2_Witness ==
  /\ IsBatchRun /\ pc = "done" /\ returned.returned
  /\ Len(returned.value) = Len(items)
  /\ config.concurrency > 1
  /\ \E a, b \in 1..Len(collected) :
       a < b /\ collected[a].index > collected[b].index

\* Number of slices whose results are all in the results array
CompletedBatches ==
  Cardinality({j \in 1..Len(batchLog) : batchLog[j].end <= Len(results)})

\* 0-based batch of the item with index i
BatchOf(i) == (i - 1) \div config.batchSize

\* afterBatch() calls that have returned
HooksCompleted == Len(hookLog) - (IF pc = "hook" THEN 1 ELSE 0)

\* C3: with checkpointAfterBatch and a hook supplied, the hook has been
\* invoked exactly once for every completed batch and for no other, in batch
\* order; an item is started only when the hooks of all earlier batches have
\* returned; a successful run of k batches has made exactly k hook calls.
C3_HookOncePerBatch ==
  (IsBatchRun /\ afterBatch /\ config.checkpointAfterBatch) =>
    /\ Len(hookLog) = CompletedBatches
    /\ \A j \in 1..Len(hookLog) : hookLog[j] = j
    /\ \A i \in started : HooksCompleted >= BatchOf(i)
    /\ pc = "hook" => running = {} /\ started = 1..BatchEnd(batchIdx)
    /\ pc = "done" => Len(hookLog) = Len(batchLog)

C3_Witness ==
  /\ IsBatchRun /\ afterBatch /\ config.checkpointAfterBatch
  /\ pc = "done"
  /\ Len(batchLog) = 3
  /\ hookLog = <<1, 2, 3>>

\* C4: with checkpointAfterBatch = false the hook is never invoked, also
\* when one is supplied.
C4_NoHookWhenDisabled ==
  (IsBatchRun /\ ~config.checkpointAfterBatch) =>
    hookLog = << >> /\ pc # "hook"

C4_Witness ==
  /\ IsBatchRun /\ afterBatch /\ ~config.checkpointAfterBatch
  /\ pc = "done"
  /\ Len(batchLog) = 3
  /\ hookLog = << >>

\* C5: the number of process calls in flight never exceeds the configured
\* concurrency nor the length of the slice being processed, for
\* processInBatches and for Ollama.embedBatch; outside a stream no call is
\* in flight.
C5_BoundedInFlight ==
  /\ Cardinality(running) <= Concurrency
  /\ pc = "stream" => Cardinality(running) <= SliceLen
  /\ pc # "stream" => running = {}

\* the limit is reached while further items of the batch wait
C5_Witness ==
  /\ IsBatchRun /\ pc = "stream"
  /\ config.concurrency = 2
  /\ Cardinality(running) = 2
  /\ pulled < SliceLen

\* Effect.sleep pauses that have elapsed
SleepsElapsed == sleeps - (IF pc = "sleep" THEN 1 ELSE 0)

\* C6: batches run one after another: the calls in flight all belong to one
\* batch, and an item of a batch is started only when every item of every
\* earlier batch has completed, the hooks of the earlier batches (when
\* enabled) have returned and the pauses after them (when batchDelayMs > 0)
\* have elapsed; no call is in flight during a hook or a pause.
C6_BatchesSequential ==
  IsBatchRun =>
    /\ \A i, j \in running : BatchOf(i) = BatchOf(j)
    /\ \A i \in started :
         /\ Len(results) >= BatchOf(i) * config.batchSize
         /\ (afterBatch /\ config.checkpointAfterBatch) =>
              HooksCompleted >= BatchOf(i)
         /\ config.batchDelayMs > 0 => SleepsElapsed >= BatchOf(i)
    /\ pc \in {"hook", "sleep"} => running = {}

C6_Witness ==
  /\ IsBatchRun /\ pc = "stream"
  /\ afterBatch /\ config.checkpointAfterBatch /\ config.batchDelayMs > 0
  /\ batchIdx = 2
  /\ Cardinality(running) = 2
  /\ hookLog = <<1, 2>> /\ sleeps = 2

\* C7: when the processing of an item fails the run has failed with that
\* item's error and returns nothing; no call stays in flight, no item of a
\* later batch is ever started, and the failing batch gets neither a
\* progress event nor a hook call: both logs end with the batch before it.
C7_ItemFailureAbortsRun ==
  (IsBatchRun /\ error.kind = "item") =>
    /\ pc = "failed"
    /\ returned = NoReturn
    /\ running = {}
    /\ BatchOf(error.item) = batchIdx
    /\ started \subseteq 1..BatchEnd(batchIdx)
    /\ Len(batchLog) = batchIdx + 1
    /\ Len(results) = BatchStart(batchIdx)
    /\ Len(progressLog) = (IF onProgress THEN batchIdx ELSE 0)
    /\ Len(hookLog) =
         (IF afterBatch /\ config.checkpointAfterBatch THEN batchIdx ELSE 0)
    /\ sleeps = (IF config.batchDelayMs > 0 THEN batchIdx ELSE 0)

\* an item of the second batch fails after the first batch completed
C7_Witness ==
  /\ IsBatchRun /\ error.kind = "item" /\ pc = "failed"
  /\ batchIdx = 1
  /\ onProgress /\ afterBatch /\ config.checkpointAfterBatch
  /\ Len(results) = 2
  /\ Len(progressLog) = 1 /\ hookLog = <<1>>
  /\ returned = NoReturn

\* C8: when the hook fails after batch k the run has failed with the hook's
\* error and returns nothing: no item after batch k is ever started, the
\* failed call is the last hook call and no pause follows it.
C8_HookFailureAbortsRun ==
  (IsBatchRun /\ error.kind = "hook") =>
    /\ pc = "failed"
    /\ returned = NoReturn
    /\ running = {}
    /\ error.batch = batchIdx + 1
    /\ started = 1..BatchEnd(batchIdx)
    /\ Len(results) = BatchEnd(batchIdx)
    /\ Len(batchLog) = batchIdx + 1
    /\ Len(hookLog) = batchIdx + 1
    /\ sleeps = (IF config.batchDelayMs > 0 THEN batchIdx ELSE 0)

\* the hook fails after the second of three batches
C8_Witness ==
  /\ IsBatchRun /\ error.kind = "hook" /\ pc = "failed"
  /\ error.batch = 2
  /\ TotalBatches = 3
  /\ config.batchDelayMs > 0
  /\ sleeps = 1

\* C9: the progress events of a run on a non-empty input carry the batch
\* numbers 1, 2, ... without gap, strictly increasing processed counts,
\* non-decreasing percents within 0..100 and the same total and
\* totalBatches; after a successful run there are totalBatches events and
\* the last has processed = total and percent = 100.
C9_ProgressMonotone ==
  (IsBatchRun /\ onProgress /\ Len(items) > 0) =>
    /\ \A k \in 1..Len(progressLog) :
         /\ progressLog[k].batch = k
         /\ progressLog[k].percent \in 0..100
         /\ progressLog[k].total = progressLog[1].total
         /\ progressLog[k].totalBatches = progressLog[1].totalBatches
         /\ k > 1 =>
              /\ progressLog[k].processed > progressLog[k - 1].processed
              /\ progressLog[k].percent >= progressLog[k - 1].percent
    /\ pc = "done" =>
         LET last == progressLog[Len(progressLog)]
         IN /\ Len(progressLog) = last.totalBatches
            /\ last.processed = last.total
            /\ last.percent = 100

\* a finished run of three batches whose percents grow
C9_Witness ==
  /\ IsBatchRun /\ onProgress /\ pc = "done"
  /\ Len(progressLog) = 3
  /\ progressLog[1].percent < progressLog[2].percent
  /\ progressLog[3].percent = 100

\* round(num / den) in exact arithmetic, halves rounded up
RoundHalfUp(num, den) == (2 * num + den) \div (2 * den)

\* C10: there is exactly one progress event per completed batch, and the
\* event of batch k carries processed = min(k*B, N), total = N and
\* percent = round(processed / N * 100) with halves rounded up.
C10_ProgressValues ==
  (IsBatchRun /\ onProgress) =>
    /\ Len(progressLog) = CompletedBatches
    /\ \A k \in 1..Len(progressLog) :
         /\ progressLog[k].processed = Min(k * config.batchSize, Len(items))
         /\ progressLog[k].total = Len(items)
         /\ progressLog[k].percent =
              RoundHalfUp(100 * progressLog[k].processed, Len(items))

\* C11: for an empty input processInBatches succeeds with an empty result:
\* no slice is taken, no item is processed, neither the hook nor the
\* progress callback is called and no pause is made, whatever the
\* configuration.
C11_EmptyInput ==
  (IsBatchRun /\ items = << >>) =>
    /\ pc \in {"loop", "done"}
    /\ batchLog = << >>
    /\ started = {} /\ running = {}
    /\ hookLog = << >>
    /\ progressLog = << >>
    /\ sleeps = 0
    /\ error = NoError
    /\ pc = "done" => returned = [returned |-> TRUE, value |-> << >>]

\* a finished run on the empty input with hook, progress callback and
\* pause configured
C11_Witness ==
  /\ IsBatchRun /\ items = << >>
  /\ afterBatch /\ config.checkpointAfterBatch /\ onProgress
  /\ config.batchDelayMs > 0
  /\ pc = "done"
  /\ returned = [returned |-> TRUE, value |-> << >>]

\* C12: getAdaptiveBatchSize never returns less than 10, whatever the base
\* size and the memory pressure.
C12_NeverBelowTen == adResult # NotCalled => adResult.value >= 10


\* The array v has the expected dimension and only finite components
ValidVector(v) ==
  /\ Len(v) = EXPECTED_EMBEDDING_DIMENSION
  /\ \A i \in 1..Len(v) : IsFinite(v[i])

\* Every vector Ollama.embed has returned is valid, and a call that got only
\* invalid responses has failed with an OllamaError or is still retrying
EmbedReturnsValid ==
  /\ emResult # NoReturn => ValidVector(emResult.value)
  /\ emPc = "failed" => emError.kind = "OllamaError" /\ emResult = NoReturn

\* C13: every vector embed returns, and every vector the engine stores, has
\* dimension 1024 and only finite components: an array that is empty, of
\* another length or has a non-finite component is never returned by
\* Ollama.embed nor by the migration's getEmbedding, and never stored.
C13_OnlyValidVectors ==
  /\ EmbedReturnsValid
  /\ mgEmbedding # NoReturn => ValidVector(mgEmbedding.value)
  /\ \A id \in 1..mgConcepts :
       mgStore[id] # NoRow => ValidVector(mgStore[id])

\* C14: one embed call sends at most 4 requests (the first attempt and at
\* most 3 retries), the waits before the retries are 100, 200 and 400 ms in
\* that order, a call whose attempts all fail fails after the fourth with
\* the error of that attempt, and an attempt that succeeds ends the call.
C14_RetrySchedule ==
  /\ emAttempts <= 4
  /\ \E k \in 0..3 : emWaits = SubSeq(<<100, 200, 400>>, 1, k)
  /\ emPc = "call" => Len(emWaits) = emAttempts /\ Len(emErrors) = emAttempts
  /\ emPc = "wait" => Len(emWaits) = emAttempts /\ Len(emErrors) = emAttempts
  /\ emPc = "failed" =>
       /\ emAttempts = 4 /\ Len(emErrors) = 4
       /\ emWaits = <<100, 200, 400>>
       /\ emError = emErrors[4]
       /\ emResult = NoReturn
  /\ emPc = "done" =>
       /\ emAttempts = Len(emErrors) + 1
       /\ Len(emWaits) = Len(emErrors)
       /\ emError = NoError

\* the call fails after four attempts on an unreachable service
C14_Witness ==
  /\ emPc = "failed"
  /\ emAttempts = 4
  /\ emWaits = <<100, 200, 400>>
  /\ \A k \in 1..4 : emErrors[k].reason = "Connection failed"

\* C15: a validation failure of the returned vector is not retried: embed
\* fails after a single request.
C15_ValidationNotRetried ==
  \A k \in 1..Len(emErrors) :
    emErrors[k].reason \in {"Invalid embedding: dimension",
                            "Invalid embedding: contains non-finite values"}
      => /\ k = 1
         /\ emAttempts = 1
         /\ emPc = "failed"


\* C16: Ollama.embedBatch returns one vector per text, the i-th being the
\* embedding of the i-th text, in whatever order the embed calls complete;
\* when an embed call fails, embedBatch fails and returns no vectors.
C16_EmbedBatchOrdered ==
  api = "embedBatch" =>
    /\ pc = "done" =>
         /\ returned.returned
         /\ Len(returned.value) = Len(items)
         /\ \A i \in 1..Len(items) : returned.value[i] = Process(items[i])
         /\ error = NoError
    /\ error # NoError =>
         /\ pc = "failed"
         /\ error.kind = "item"
         /\ returned = NoReturn
         /\ running = {}
    /\ pc \in {"stream", "done", "failed"}

\* three texts whose embeddings completed in the reverse order
C16_Witness ==
  /\ api = "embedBatch" /\ pc = "done"
  /\ Len(items) = 3
  /\ collected[1].index = 3 /\ collected[2].index = 2
  /\ returned.value = <<Process(items[1]), Process(items[2]),
                        Process(items[3])>>


\* The registry lists the configured model: under its exact name, or under
\* a name that continues it with ':'
Listed ==
  \E name \in hcRegistry :
    \/ name = ModelName
    \/ /\ Len(name) > Len(ModelName)
       /\ \A i \in 1..Len(ModelName) : name[i] = ModelName[i]
       /\ name[Len(ModelName) + 1] = ":"

\* C17: checkHealth succeeds without side effect when the registry lists
\* the model; when the model is absent it spawns the install exactly when
\* autoInstall is set and otherwise fails with an OllamaError naming the
\* model; it fails when the registry cannot be read or the install fails.
C17_CheckHealth ==
  /\ hcTags = "ok" /\ Listed => hcPc = "done" /\ hcPulls = << >>
  /\ hcTags = "ok" /\ ~Listed /\ hcAutoInstall =>
       /\ hcPulls = <<ModelName>>
       /\ hcPc \in {"install", "done", "failed"}
       /\ hcPc = "failed" => hcError.reason = "Auto-install failed"
  /\ hcTags = "ok" /\ ~Listed /\ ~hcAutoInstall =>
       /\ hcPulls = << >>
       /\ hcPc = "failed"
       /\ hcError.kind = "OllamaError"
       /\ hcError.reason = "Model not found" /\ hcError.model = ModelName
  /\ hcTags \in {"unreachable", "notOk", "badJson"} =>
       /\ hcPc = "failed" /\ hcError.kind = "OllamaError"
       /\ hcPulls = << >>
  /\ hcTags = "pending" => hcPulls = << >> /\ hcError = NoError
  /\ hcPc = "done" => hcError = NoError
  /\ hcPc = "failed" => hcError # NoError

\* the registry has only a longer-named model: the install is spawned and
\* succeeds
C17_Witness ==
  /\ hcPc = "done"
  /\ hcRegistry = {<<"m", "x", "b">>}
  /\ hcAutoInstall
  /\ hcPulls = <<ModelName>>


\* The calls addConcept(id), storeConceptEmbedding(id), in this order
PersistCalls(d) ==
  <<[op |-> "addConcept", idx |-> d.idx, id |-> d.id],
    [op |-> "storeConceptEmbedding", idx |-> d.idx, id |-> d.id]>>

\* The decision d is an acceptance that persisted the proposal: the calls
\* made for it are addConcept and storeConceptEmbedding, the store gained
\* its concept record and its embedding, and accepted grew by one
AcceptedAndPersisted(d) ==
  /\ d.decision = "ACCEPT"
  /\ d.after.calls = d.before.calls + 2
  /\ SubSeq(ddCalls, d.before.calls + 1, d.after.calls) = PersistCalls(d)
  /\ d.after.concepts = d.before.concepts \cup {d.id}
  /\ \E e \in d.after.embeddings :
       /\ e.id = d.id /\ e.point = ddProposals[d.idx].point
       /\ d.after.embeddings \ {e} = {f \in d.before.embeddings : f.id # d.id}
  /\ d.after.accepted = d.before.accepted + 1
  /\ d.after.rejected = d.before.rejected

\* C18: a proposal for which the retrieval at 0.75 returns no candidate is
\* accepted without consulting the judge: exactly one concept record and
\* its embedding are persisted and accepted grows by one.
C18_NoCandidateAccepted ==
  /\ \A k \in 1..Len(ddDecisions) :
       ddDecisions[k].candidate = "none" =>
         /\ ddDecisions[k].judge = "notConsulted"
         /\ ddDecisions[k].after.judged = ddDecisions[k].before.judged
         /\ AcceptedAndPersisted(ddDecisions[k])
         /\ Cardinality(ddDecisions[k].after.concepts) =
              Cardinality(ddDecisions[k].before.concepts) + 1
         /\ Cardinality(ddDecisions[k].after.embeddings) =
              Cardinality(ddDecisions[k].before.embeddings) + 1
  /\ \A k \in 1..Len(ddJudged) : ddJudged[k].candidate # "none"
  /\ ddPc = "judge" => ddCandidate # "none"

\* the far proposal c on a store holding e: accepted, no judge call
C18_Witness ==
  /\ ddPc = "done"
  /\ ddProposals = <<[id |-> "c", point |-> 4]>>
  /\ ddDecisions[1].candidate = "none"
  /\ ddDecisions[1].decision = "ACCEPT"
  /\ ddJudged = << >>
  /\ ddConcepts = {"e", "c"}
  /\ ddReturned = [returned |-> TRUE, accepted |-> 1, rejected |-> 0]

\* The judge could not be consulted: no gateway key, the model call threw,
\* the response was not OK, or the call of the judge itself threw
JudgeUnavailable(sc) ==
  sc.how \in {"noKey", "throws", "notOk", "configThrows"}

\* The decisions taken for the idx-th proposal
DecisionsOf(idx) ==
  {ddDecisions[k] : k \in {j \in 1..Len(ddDecisions) : ddDecisions[j].idx = idx}}

\* C19: deduplication is fail-open: a proposal with a candidate whose judge
\* cannot be consulted is accepted and persisted as if no duplicate had been
\* found, and the unavailable judge never makes the run fail.
C19_FailOpen ==
  \A k \in 1..Len(ddJudged) :
    JudgeUnavailable(ddJudged[k].scenario) =>
      /\ ddError # EnrichmentError("[object Object]")
      /\ \A d \in DecisionsOf(ddJudged[k].idx) :
           /\ d.judge = "unavailable"
           /\ AcceptedAndPersisted(d)
      /\ (ddPc \in {"loop", "done"} \/ ddIdx > ddJudged[k].idx) =>
           DecisionsOf(ddJudged[k].idx) # {}

\* The judge answered with the one word DUPLICATE, in whatever letter case
\* and with whatever blanks around it
AnswersDuplicate(sc) ==
  /\ sc.how = "answer"
  /\ sc.text \in {DUPLICATE,
                  <<"d", "u", "p", "l", "i", "c", "a", "t", "e", "\n">>}

\* C20: a proposal with a candidate for which an available judge answers
\* DUPLICATE is rejected: neither addConcept nor storeConceptEmbedding is
\* called for it, the persisted concepts are unchanged and rejected grows by
\* one.
C20_DuplicateRejected ==
  \A k \in 1..Len(ddJudged) :
    AnswersDuplicate(ddJudged[k].scenario) =>
      /\ ddJudged[k].result = [isDuplicate |-> TRUE, available |-> TRUE]
      /\ DecisionsOf(ddJudged[k].idx) # {}
      /\ \A d \in DecisionsOf(ddJudged[k].idx) :
           /\ d.decision = "REJECT"
           /\ d.candidate = ddJudged[k].candidate /\ d.candidate # "none"
           /\ d.after.concepts = d.before.concepts
           /\ d.after.embeddings = d.before.embeddings
           /\ d.after.calls = d.before.calls
           /\ d.after.rejected = d.before.rejected + 1
           /\ d.after.accepted = d.before.accepted
      /\ \A c \in 1..Len(ddCalls) : ddCalls[c].idx # ddJudged[k].idx

\* b is 80% similar to the stored e and the judge answers "duplicate" in
\* lower case: rejected, the store still holds e alone
C20_Witness ==
  /\ ddPc = "done"
  /\ ddProposals = <<[id |-> "b", point |-> 1]>>
  /\ ddJudged[1].candidate = "e"
  /\ ddJudged[1].scenario.text =
       <<"d", "u", "p", "l", "i", "c", "a", "t", "e", "\n">>
  /\ ddDecisions[1].decision = "REJECT"
  /\ ddConcepts = {"e"} /\ ddEmbeddings = {[id |-> "e", point |-> 0]}
  /\ ddCalls = << >>
  /\ ddReturned = [returned |-> TRUE, accepted |-> 0, rejected |-> 1]


\* The text has the word DUPLICATE in it, in whatever letter case
HasDuplicateToken(text) ==
  \E i \in 0..(Len(text) - 9) :
    \A j \in 1..9 :
      text[i + j] \in
        {DUPLICATE[j],
         <<"d", "u", "p", "l", "i", "c", "a", "t", "e">>[j]}

\* The judge call was answered by the model with a text naming DUPLICATE
JudgedDuplicate(j) ==
  /\ j.scenario.how = "answer"
  /\ j.scenario.text # Undefined
  /\ HasDuplicateToken(j.scenario.text)

\* The judge calls made for the idx-th proposal
JudgeCallsOf(idx) ==
  {ddJudged[k] : k \in {j \in 1..Len(ddJudged) : ddJudged[j].idx = idx}}

\* Every decision taken is ACCEPT or REJECT, one per proposal, and REJECT is
\* taken only with a candidate and an available judge naming DUPLICATE
RejectOnlyOnDuplicate ==
  /\ \A k \in 1..Len(ddDecisions) :
       LET d == ddDecisions[k]
       IN /\ d.decision \in {"ACCEPT", "REJECT"}
          /\ d.decision = "REJECT" =>
               /\ d.candidate # "none"
               /\ \E j \in JudgeCallsOf(d.idx) :
                    j.result.available /\ JudgedDuplicate(j)
          /\ \A m \in 1..Len(ddDecisions) :
               ddDecisions[m].idx = d.idx => m = k
  /\ \A idx \in 1..Len(ddProposals) :
       (idx < ddIdx) => DecisionsOf(idx) # {}

\* C21: a proposal is rejected only if the retrieval returned a candidate,
\* the judge was available and its answer contains DUPLICATE; on every
\* other path (no candidate, judge unavailable, another answer) the
\* proposal goes on to acceptance, and every proposal fully processed has
\* exactly one decision, ACCEPT or REJECT.
C21_RejectOnlyOnDuplicate ==
  /\ RejectOnlyOnDuplicate
  /\ \A k \in 1..Len(ddJudged) :
       ~JudgedDuplicate(ddJudged[k]) =>
         /\ ddError # EnrichmentError("[object Object]")
         /\ \A d \in DecisionsOf(ddJudged[k].idx) : d.decision = "ACCEPT"
  /\ \A k \in 1..Len(ddDecisions) :
       (ddDecisions[k].candidate = "none" \/ ddDecisions[k].judge # "available")
         => ddDecisions[k].decision = "ACCEPT"


\* C23: after a deduplication run, also one in which a persistence call
\* failed, every concept of the taxonomy store has a stored embedding.
C23_ConceptsHaveEmbeddings ==
  ddPc \in {"done", "failed"} =>
    \A id \in ddConcepts : \E e \in ddEmbeddings : e.id = id

\* Store and counters when the idx-th proposal was taken
BeforeOf(idx) ==
  IF DecisionsOf(idx) # {}
    THEN (CHOOSE d \in DecisionsOf(idx) : TRUE).before
  ELSE ddBefore

\* The stored embeddings at least 75% similar to the idx-th proposal when
\* it was taken
CandidatesOf(idx) ==
  {e \in BeforeOf(idx).embeddings :
     Similarity(e.point, ddProposals[idx].point) >= 75}

\* C30: for each proposal the judge is consulted at most once, and only
\* about the highest-similarity candidate of the retrieval; no lower-ranked
\* candidate is sent to it, also after the answer DISTINCT.
C30_JudgeOnlyTopCandidate ==
  /\ \A k, m \in 1..Len(ddJudged) :
       ddJudged[k].idx = ddJudged[m].idx => k = m
  /\ \A k \in 1..Len(ddJudged) :
       \E e \in CandidatesOf(ddJudged[k].idx) :
         /\ e.id = ddJudged[k].candidate
         /\ \A f \in CandidatesOf(ddJudged[k].idx) :
              Similarity(f.point, ddProposals[ddJudged[k].idx].point) <=
                Similarity(e.point, ddProposals[ddJudged[k].idx].point)

\* the second b has the candidates b (100%) and e (80%): the judge is asked
\* about b alone, answers DISTINCT, and the proposal is accepted
C30_Witness ==
  /\ ddPc = "done"
  /\ ddProposals = <<[id |-> "b", point |-> 1], [id |-> "b", point |-> 1]>>
  /\ Len(ddJudged) = 2
  /\ ddJudged[1].candidate = "e"
  /\ ddJudged[2].candidate = "b"
  /\ Cardinality(CandidatesOf(2)) = 2
  /\ ddJudged[2].scenario.text = <<"D", "I", "S", "T", "I", "N", "C", "T">>
  /\ ddDecisions[2].decision = "ACCEPT"


\* The multiplier table: floor(base * m) for the memory pressure
\* heapUsed / heapTotal compared exactly (as a fraction) with 50%, 70%, 85%
TableScaled(base, used, total) ==
  IF 100 * used > 85 * total THEN base \div 4
  ELSE IF 100 * used > 70 * total THEN base \div 2
  ELSE IF 100 * used > 50 * total THEN (3 * base) \div 4
  ELSE base

\* C28: with adaptive sizing the batch size is max(10, floor(base * m)),
\* m being 1.00 for a pressure of at most 50%, 0.75 above 50% up to 70%,
\* 0.50 above 70% up to 85% and 0.25 above 85%.
C28_AdaptiveTable ==
  (adResult # NotCalled /\ adMem.available) =>
    adResult.value = Max(10, TableScaled(adBase, adMem.heapUsed, adMem.heapTotal))

\* The table holds in the three pressure bands above 50%, and at or below
\* 50% for base sizes of at least 10
AdaptiveTableAboveHalf ==
  (/\ adResult # NotCalled /\ adMem.available
   /\ \/ 100 * adMem.heapUsed > 50 * adMem.heapTotal
      \/ adBase >= 10) =>
    adResult.value = Max(10, TableScaled(adBase, adMem.heapUsed, adMem.heapTotal))

\* C29 as stated: getAdaptiveBatchSize(base) is at most base for every base
\* size and every memory pressure.
C29_OnlyScalesDown == adResult # NotCalled => adResult.value <= adBase

\* C29: getAdaptiveBatchSize(base) is at most max(10, base): at most base
\* for every base size of at least 10, and at most 10 for a smaller one.
C29_AtMostBaseOrTen == adResult # NotCalled => adResult.value <= Max(10, adBase)

\* a base of 40 under a pressure above 85% is scaled down to 10
C29_Witness ==
  /\ adResult # NotCalled /\ adMem.available
  /\ adBase = 40 /\ 100 * adMem.heapUsed > 85 * adMem.heapTotal
  /\ adResult.value = 10


\* The calls of ensureDaemonRunning that have ended
EnsureEnded == {p \in Procs : dmCall[p] = "ensureDaemonRunning" /\
                              dmOutcome[p] # NoOutcome}

\* C25: ensureDaemonRunning never throws: whatever the socket file, the PID
\* file and the process table are, and whatever other processes do to the
\* files meanwhile, it returns {success: true, mode: "daemon"} or
\* {success: false, mode: "fallback", error}.
C25_EnsureNeverThrows ==
  \A p \in EnsureEnded :
    /\ dmOutcome[p].kind = "returned"
    /\ dmOutcome[p].value.mode \in {"daemon", "fallback"}
    /\ dmOutcome[p].value.success <=> dmOutcome[p].value.mode = "daemon"

\* Every returned result is well-formed, and the only exception that leaves
\* ensureDaemonRunning is the rejection of its own isDaemonRunning call
EnsureResultsWellFormed ==
  \A p \in EnsureEnded :
    IF dmOutcome[p].kind = "returned"
      THEN /\ dmOutcome[p].value.mode \in {"daemon", "fallback"}
           /\ dmOutcome[p].value.success <=> dmOutcome[p].value.mode = "daemon"
    ELSE dmOutcome[p] = Thrown("ENOENT") /\ dmIn[p] = "ensureDaemonRunning"

\* The processes that hold an open PGlite instance on the database directory
Holders == {p \in Procs : dmDb[p]}

\* C26: for any interleaving of startDaemon / ensureDaemonRunning calls of
\* several processes with the same configuration, at most one process at a
\* time holds an open PGlite instance on the database directory.
C26_OneConnection == Cardinality(Holders) <= 1


\* The call of Ollama.embed has ended, with a vector or with an OllamaError
EmbedEnded == emPc \in {"done", "failed"}

\* C27: every embedding or judge network call is bounded by a timeout: an
\* embed call whose service never responds eventually ends (it fails after
\* its retries are exhausted), so a run never waits forever on one call.
C27_CallsEnd == <>EmbedEnded

\* When the service answers every request the call ends after at most four
\* requests
EmbedEndsWhenAnswered == WF_vars(NextEmbed) => <>EmbedEnded


\* Identifiers that break the structural rule: unknown parent, placeholder
\* child, no slash, two slashes, a space, upper case, five hyphen-words,
\* a child of 31 characters, no identifier at all
InvalidIds ==
  {"new/concept", "design/new", "design", "design/ux/ui", "design/u x",
   "design/UX", "meta/a-b-c-d-e", "meta/xxxxxxxxxxxxxxxxxxxxxxxxxxxxxxx", ""}

\* The ids of the proposals the LLM returned
RawIds ==
  {enRaw.list[i].id : i \in 1..Len(enRaw.list)}

PointOfConcept(id) == (CHOOSE e \in ddEmbeddings : e.id = id).point

\* A working judge that answers DUPLICATE for a near-exact match: every
\* judge call made so far was answered, with DUPLICATE when the candidate's
\* embedding equals the proposal's
WorkingJudge ==
  \A k \in 1..Len(ddJudged) :
    /\ ddJudged[k].result.available
    /\ Similarity(ddProposals[ddJudged[k].idx].point,
                  PointOfConcept(ddJudged[k].candidate)) = 100
         => ddJudged[k].result.isDuplicate

\* The persistence calls made for concept id
CallsFor(op, id) ==
  {k \in 1..Len(ddCalls) : ddCalls[k].op = op /\ ddCalls[k].id = id}

\* Position q of the history holds the second submission of the proposal
\* first submitted at position p
SubmittedTwice(p, q) ==
  /\ p < q
  /\ ddProposals[p] = ddProposals[q]
  /\ \A k \in 1..(q - 1) : k # p => ddProposals[k] # ddProposals[p]

\* C22: with a working judge that answers DUPLICATE for a near-exact match,
\* the same proposal submitted twice (in one run or in two successive runs
\* on the same store) yields ACCEPT then REJECT: when the first submission
\* was accepted it has persisted the concept and its embedding, the second
\* has that concept as its top candidate and is rejected, and the store
\* holds one copy (one addConcept, one stored embedding).
C22_AcceptThenReject ==
  WorkingJudge =>
    \A p, q \in 1..Len(ddProposals) :
      SubmittedTwice(p, q) =>
        \A first \in DecisionsOf(p), second \in DecisionsOf(q) :
          first.decision = "ACCEPT" =>
            /\ first.id \in first.after.concepts
            /\ \E e \in first.after.embeddings : e.id = first.id
            /\ second.candidate = first.id
            /\ second.decision = "REJECT"
            /\ second.after.concepts = second.before.concepts
            /\ second.after.embeddings = second.before.embeddings
            /\ Cardinality(CallsFor("addConcept", first.id)) = 1
            /\ Cardinality(CallsFor("storeConceptEmbedding", first.id)) = 1
            /\ Cardinality({e \in ddEmbeddings : e.id = first.id}) = 1

\* b is submitted in one run and again in the next run on the same store:
\* accepted the first time, rejected against the stored b the second time
C22_Witness ==
  /\ WorkingJudge
  /\ ddPc = "done"
  /\ Len(ddProposals) = 2 /\ ddProposals[1] = ddProposals[2]
  /\ ddProposals[1].id = "b"
  /\ Len(ddDecisions) = 2
  /\ ddDecisions[1].decision = "ACCEPT"
  /\ ddDecisions[2].decision = "REJECT" /\ ddDecisions[2].candidate = "b"
  /\ ddDecisions[2].before.accepted = 0
  /\ ddReturned = [returned |-> TRUE, accepted |-> 0, rejected |-> 1]


\* The answer is exactly one of the two words
ExactAnswer(text) ==
  text \in {DUPLICATE, <<"D", "I", "S", "T", "I", "N", "C", "T">>}

\* C31: the judge must answer exactly DUPLICATE or DISTINCT; any other
\* answer text (a sentence such as "not a duplicate", an empty answer,
\* lower-case text) is treated as DISTINCT, so the proposal is accepted.
C31_OtherAnswersAreDistinct ==
  \A k \in 1..Len(ddJudged) :
    (/\ ddJudged[k].scenario.how = "answer"
     /\ ddJudged[k].scenario.text # Undefined
     /\ ~ExactAnswer(ddJudged[k].scenario.text)) =>
      /\ ~ddJudged[k].result.isDuplicate
      /\ \A d \in DecisionsOf(ddJudged[k].idx) : d.decision = "ACCEPT"

\* An answer that does not have the letters of DUPLICATE in it, in whatever
\* case, is treated as DISTINCT, and the exact answer DISTINCT is
OtherAnswersWithoutTokenAreDistinct ==
  \A k \in 1..Len(ddJudged) :
    (/\ ddJudged[k].scenario.how = "answer"
     /\ ~JudgedDuplicate(ddJudged[k])) =>
      /\ ddJudged[k].result = [isDuplicate |-> FALSE, available |-> TRUE]
      /\ \A d \in DecisionsOf(ddJudged[k].idx) : d.decision = "ACCEPT"


\* The ids of RawConcepts of the form parent/child with one slash, a
\* whitelisted parent and a non-empty lowercase child of at most 4
\* hyphen-words and 30 characters that is no placeholder
WellFormedIds == {"design/ux", "meta/a-b-c-d"}

KeptByRule(c) == c.id \in WellFormedIds /\ c.prefLabel # << >>

\* The proposals of the LLM's list that the rule keeps, in input order
RuleKept == IF enRaw.defined THEN SelectSeq(enRaw.list, KeptByRule) ELSE << >>

\* validateProposedConcepts applied to its own result
ValidatedTwice ==
  validateProposedConcepts(
    [defined |-> TRUE, list |-> validateProposedConcepts(enRaw)])

\* C32: validateProposedConcepts keeps a proposal exactly when its id is
\* parent/child with one slash, a whitelisted parent and a non-empty
\* lowercase child of at most 4 hyphen-words and 30 characters that is not
\* "concept" or "new", and the proposal has a label; the kept proposals keep
\* their input order, and validating twice gives the same list.
C32_KeepsExactlyWellFormed ==
  enPc \in {"autoAccept", "done"} =>
    /\ validateProposedConcepts(enRaw) = RuleKept
    /\ ValidatedTwice = validateProposedConcepts(enRaw)
    /\ enPc = "autoAccept" => ddProposals = RuleKept

\* What the code keeps: the well-formed ids and the id with an empty child,
\* with a label of at most five words
KeptByCode(c) ==
  /\ c.id \in WellFormedIds \cup {"design/"}
  /\ c.prefLabel # << >>
  /\ c.prefLabel # <<"a", " ", "b", " ", "c", " ", "d", " ", "e", " ", "f">>

\* The kept proposals are those of KeptByCode in input order, validating
\* twice changes nothing, and they are what autoAcceptProposals is given
ValidationIsOrderedFilter ==
  /\ validateProposedConcepts(enRaw) =
       (IF enRaw.defined THEN SelectSeq(enRaw.list, KeptByCode) ELSE << >>)
  /\ ValidatedTwice = validateProposedConcepts(enRaw)
  /\ enPc = "autoAccept" => ddProposals = validateProposedConcepts(enRaw)


\* C33: after every batch except the last the run pauses for batchDelayMs
\* before the next batch starts; no pause follows the last batch, a run of
\* one batch never pauses, and a successful run of k >= 1 batches with
\* batchDelayMs > 0 pauses exactly k - 1 times.
C33_PauseBetweenBatches ==
  IsBatchRun =>
    /\ config.batchDelayMs = 0 => sleeps = 0
    /\ TotalBatches <= 1 => sleeps = 0
    /\ pc = "sleep" => batchIdx < TotalBatches - 1 /\ sleeps = batchIdx + 1
    /\ (config.batchDelayMs > 0 /\ pc = "stream") =>
         sleeps = Len(batchLog) - 1
    /\ (config.batchDelayMs > 0 /\ pc = "done" /\ TotalBatches >= 1) =>
         sleeps = TotalBatches - 1
    /\ pc = "done" => sleeps <= Len(batchLog)

\* a successful run of three batches with a delay has paused twice
C33_Witness ==
  /\ IsBatchRun /\ pc = "done"
  /\ config.batchDelayMs > 0
  /\ TotalBatches = 3 /\ Len(batchLog) = 3
  /\ sleeps = 2

\* C34: within each batch the steps happen in the order all items complete,
\* checkpoint hook (when enabled), progress event of that batch, pause; with
\* checkpointing enabled the progress event of batch k is emitted only after
\* batch k's hook has completed.
C34_HookBeforeProgress ==
  (IsBatchRun /\ onProgress) =>
    /\ pc = "hook" => Len(progressLog) = batchIdx
    /\ pc = "stream" => Len(progressLog) = batchIdx
    /\ pc = "sleep" => Len(progressLog) = batchIdx + 1

\* The order of the code: all items complete, progress event of the batch,
\* hook (when enabled), pause
ProgressBeforeHook ==
  IsBatchRun =>
    /\ pc = "stream" =>
         /\ Len(results) = BatchStart(batchIdx)
         /\ Len(hookLog) = (IF HookEnabled THEN batchIdx ELSE 0)
         /\ onProgress => Len(progressLog) = batchIdx
    /\ pc = "hook" =>
         /\ Len(results) = BatchEnd(batchIdx)
         /\ hookLog[Len(hookLog)] = batchIdx + 1
         /\ onProgress =>
              /\ Len(progressLog) = batchIdx + 1
              /\ progressLog[batchIdx + 1].batch = batchIdx + 1
    /\ pc = "sleep" =>
         /\ Len(results) = BatchEnd(batchIdx)
         /\ onProgress => Len(progressLog) = batchIdx + 1
         /\ HookEnabled => Len(hookLog) = batchIdx + 1


\* C35: the run configuration is never mutated: embedBatch computes the
\* adaptive batch size once per run on a derived copy, every batch of the run
\* is sliced with that size whatever the memory pressure does meanwhile, and
\* getConfig() returns the defaults overridden by the caller's values before
\* and after any number of runs.
C35_ConfigNeverMutated ==
  /\ cpFull = Merge(DEFAULT_QUEUE_CONFIG, cpOverride)
  /\ \A f \in DOMAIN cpOverride : cpFull[f] = cpOverride[f]
  /\ cpGot # NotCalled => cpGot.value = Merge(DEFAULT_QUEUE_CONFIG, cpOverride)
  /\ cpRuns > 0 =>
       /\ \A f \in DOMAIN cpFull \ {"batchSize"} : cpAdaptive[f] = cpFull[f]
       /\ ~cpFull.adaptiveBatchSize => cpAdaptive.batchSize = cpFull.batchSize
       /\ \A k \in 1..Len(cpSlices) :
            /\ cpSlices[k].start = (k - 1) * cpAdaptive.batchSize
            /\ cpSlices[k].end =
                 Min(k * cpAdaptive.batchSize, cpTexts)
            /\ cpSlices[k].start < cpSlices[k].end

\* the second run of a processor has sliced several batches with one size
\* while the pressure now asks for another size, and getConfig was called
C35_Witness ==
  /\ cpRuns = 2 /\ cpPc = "idle"
  /\ Len(cpSlices) >= 3
  /\ cpFull.adaptiveBatchSize
  /\ getAdaptiveBatchSize(cpFull.batchSize) # cpAdaptive.batchSize
  /\ cpAdaptive.batchSize # cpFull.batchSize
  /\ cpGot # NotCalled


CallsOf(op) == {k \in 1..Len(ddCalls) : ddCalls[k].op = op}

ProposalsJudgedDuplicate ==
  {ddJudged[k].idx :
     k \in {j \in 1..Len(ddJudged) : ddJudged[j].result.isDuplicate}}

C37_ReportedAcceptedIsPersisted ==
  enCounts.returned =>
    /\ enPc = "done"
    /\ enCounts.accepted = Cardinality(CallsOf("storeConceptEmbedding"))
    /\ enCounts.accepted = Cardinality(CallsOf("addConcept"))

\* enrich goes on to its result after a failed step, and the counts of a
\* step that did not fail are those of its persisted concepts
ReportedCountsOfUnfailedStep ==
  /\ ddPc = "failed" => enPc \in {"autoAccept", "done"}
  /\ (enCounts.returned /\ ddPc = "failed") =>
       enPc = "done" /\ enCounts.accepted = 0 /\ enCounts.rejected = 0
  /\ (enCounts.returned /\ ddPc # "failed") =>
       /\ enCounts.accepted = Cardinality(CallsOf("storeConceptEmbedding"))
       /\ enCounts.accepted + enCounts.rejected = Len(ddProposals)


\* What isDaemonRunning would return if it ran without interruption now
IsRunningNow ==
  /\ dmSocket
  /\ dmPidFile.exists
  /\ LET pid == parseInt(Trim(dmPidFile.text))
     IN  ~pid.nan /\ pid.value > 0 /\ ProcessExists(pid.value)

\* Process p has shut its own daemon down and opened no instance since
HasShutDown(p) ==
  /\ dmCall[p] = "stopDaemon"
  /\ dmShutdown[p] # "none"
  /\ dmPc[p] = "idle"
  /\ dmOutcome[p] = Returned("void")

CleanedUp(p) ==
  /\ ~dmServer[p]
  /\ ~dmDb[p]
  /\ ~dmActive[p]
  /\ dmPidFile.exists => dmPidFile.text # PidText(p)

\* The step with which stopDaemon returns in the process that owns the daemon
OwnerStopReturns(p) ==
  /\ dmPc[p] = "removeSocket"
  /\ dmPc'[p] = "idle"

\* A step of a further stopDaemon of a process that has shut its daemon down
SecondStopStep(p) ==
  /\ dmShutdown[p] # "none"
  /\ dmPc[p] \in {"staleSocket", "stalePid"}
  /\ dmPc'[p] # dmPc[p]

\* C38: after stopDaemon returns in the process that started the daemon, the
\* socket server and the PGlite instance are closed, the PID file and the
\* socket file are removed, the active-daemon slot is cleared and
\* isDaemonRunning returns false; a failing CHECKPOINT is logged and prevents
\* none of these steps, and a second stopDaemon is a harmless no-op.
C38_StopCleansUp ==
  /\ [](\A p \in Procs :
          /\ HasShutDown(p) => CleanedUp(p)
          /\ (dmShutdown[p] = "logged" /\ dmPc[p] = "idle"
                /\ dmCall[p] = "stopDaemon") =>
               dmOutcome[p] \in {Returned("void"),
                                 Thrown("server.stop failed"),
                                 Thrown("db.close failed")}
          /\ dmPc[p] = "removeSocket" => ~dmPidFile.exists \/
                                          dmPidFile.text # PidText(p))
  /\ [][\A p \in Procs :
          /\ OwnerStopReturns(p) =>
               /\ ~dmSocket' /\ ~IsRunningNow'
               /\ HasShutDown(p)' /\ CleanedUp(p)'
          /\ (dmPc[p] = "removePid" /\ dmPc'[p] # dmPc[p]) =>
               ~dmPidFile'.exists
          /\ SecondStopStep(p) =>
               /\ CleanedUp(p)'
               /\ dmPc'[p] = "idle" => dmOutcome'[p] = Returned("void")
               /\ (\A q \in Procs : ~dmServer[q] /\ dmPc[q] # "writepid") =>
                    /\ dmSocket' = dmSocket
                    /\ dmPidFile' = dmPidFile]_vars

\* a process whose CHECKPOINT failed during shutdown has returned from
\* stopDaemon with everything cleaned up, and from a second stopDaemon too
C38_Witness ==
  \E p \in Procs :
    /\ dmShutdown[p] = "logged"
    /\ HasShutDown(p)
    /\ dmCalls = 3
    /\ \A q \in Procs \ {p} : dmCall[q] = "none"
    /\ ~dmSocket /\ ~dmPidFile.exists /\ ~IsRunningNow


\* A daemon started by process q is alive and q is not shutting it down
LiveDaemon(q) ==
  /\ dmActive[q] /\ dmServer[q] /\ dmDb[q]
  /\ dmCall[q] # "stopDaemon"

\* A step of the branch of stopDaemon taken when activeDaemon is null
StaleStopStep(p) ==
  /\ dmPc[p] \in {"staleSocket", "stalePid"}
  /\ dmPc'[p] # dmPc[p]

\* C39: stopDaemon in a process that did not start the daemon only cleans up
\* stale files: while a daemon started by another process is alive the call
\* removes neither that daemon's socket file nor its PID file, so
\* isDaemonRunning stays true for the live daemon.
C39_ForeignStopKeepsLiveFiles ==
  [][\A p \in Procs :
       (StaleStopStep(p) /\ \E q \in Procs \ {p} : LiveDaemon(q)) =>
         /\ dmSocket' = dmSocket
         /\ dmPidFile' = dmPidFile
         /\ IsRunningNow => IsRunningNow']_vars

\* The branch touches the two files only, never a server, a PGlite instance
\* or the active-daemon slot of any process, and it returns normally
StaleStopTouchesFilesOnly ==
  [][\A p \in Procs :
       StaleStopStep(p) =>
         /\ dmServer' = dmServer /\ dmDb' = dmDb /\ dmActive' = dmActive
         /\ ~dmActive[p]
         /\ dmPc'[p] = "idle" => dmOutcome'[p] = Returned("void")]_vars


\* C40: the concept-embeddings migration always terminates: the batch loop
\* of main eventually exits and reaches the final statistics, also when
\* embedding generation or the insert keeps failing for some concepts.
C40_MigrationTerminates == <>(mgPc = "done")

\* A pass of the catch block: errors++ for the concept at hand
MigrationErrorStep ==
  /\ mgPc \in {"row", "insert"}
  /\ mgPc' \in {"row", "loop"}
  /\ mgProcessed' = mgProcessed
  /\ mgRows' = Tail(mgRows)

\* The loop exits when every concept fails only finitely often
MigrationEndsWhenFailuresStop ==
  <>(mgPc = "done") \/ []<><<MigrationErrorStep>>_vars

\* A concept whose embedding failed stays without a row, the loop exits only
\* with nothing missing or nothing selected, and processed counts the rows
\* written
FailedConceptsStayMissing ==
  /\ mgPc \in {"loop", "row", "insert", "done"} =>
       mgProcessed = mgTotal - Len(MissingFrom(1, mgConcepts))
  /\ (mgPc = "done" /\ mgTotal > 0) => mgProcessed = mgTotal
  /\ mgErrors <= MaxMigrationErrors


====
